---- MODULE Spec2Model ----
(***************************************************************************)
(* Model of the adaptive geometry-simplification and export-selection      *)
(* engine of Optimization_texture_model:                                   *)
(*   - simplifyMesh of src/src/ThreeJsUtils.jsx (the in-process path) and  *)
(*     simplifyMesh of src/src/simplifyMeshworker.js (the worker path),    *)
(*   - restoreMaterialGroups and checkForLostFeatures,                     *)
(*   - the export candidate search and result record of optimizeModels,    *)
(*     with applyMinimalCompression.                                       *)
(*                                                                         *)
(* Numbers.  JavaScript numbers are modelled by exact fixed-point          *)
(* integers: a ratio r is the integer r * 10000 (Scale), a geometry        *)
(* complexity c is c * 1000, a percentage is an integer number of          *)
(* hundredths, a byte size s that may be fractional (originalSize * 0.98)  *)
(* is the integer 100 * s.  Comparisons of quotients are made by cross     *)
(* multiplication, so no rounding is introduced by the model; the          *)
(* rounding of IEEE doubles is not modelled.                               *)
(***************************************************************************)
EXTENDS Integers, Sequences, FiniteSets, TLC

Min(a, b) == IF a <= b THEN a ELSE b
Max(a, b) == IF a >= b THEN a ELSE b
Abs(a) == IF a >= 0 THEN a ELSE -a

\* One unit of a ratio is 1/10000.
Scale == 100 * 100

(***************************************************************************)
(* Bounded inputs of the simplifier.                                       *)
(***************************************************************************)
Paths == {"inproc", "worker"}

\* Vertex counts of the mesh handed to simplifyMesh.
VertexCounts == {6, 10000}

\* config.simplificationRatio in hundredths (the UI slider, 0..100; 1 is the
\* UI default).
SimplificationRatios == {1, 50, 100}

\* meshAnalysis.geometryComplexity in thousandths.
Complexities == {0, 450, 750}

\* Axis sizes of the original bounding box (each axis) and the bounding
\* boxes a candidate may have.
OriginalAxisSize == 10 * 100
CandidateBoxes ==
    { <<1000, 1000, 1000>>, <<990, 1000, 1000>>, <<1000, 1015, 1000>>,
      <<1000, 1000, 1120>> }

\* Feature profiles the analyser may return for the saved original and for a
\* candidate inside checkForLostFeatures.
OriginalProfiles ==
    { [small |-> 10, thin |-> 10, cx |-> c] : c \in {300, 500} }
CandidateProfiles ==
    { [small |-> s, thin |-> t, cx |-> c] :
        s \in {7, 10}, t \in {0, 8, 10}, c \in {500} }

NoCandidate == [count |-> -1]

VARIABLES
    path,                    \* which simplifyMesh runs
    config,                  \* optimizationConfig
    pc,                      \* position inside simplifyMesh
    originalVertexCount,     \* originalGeometry.attributes.position.count
    meshVertexCount,         \* mesh.geometry.attributes.position.count
    currentBestVertexCount,
    modified,
    dedupApplied,            \* the merge result replaced the geometry
    meshAnalysis,            \* meshAnalysis.geometryComplexity; -1 before the analysis
    currentTargetRatio,
    attempts,
    simplificationSuccessful,
    reduceCalls,             \* calls of modifier.modify
    mergeCalls,              \* calls of mergeVertices
    lastUsedRatio,           \* currentTargetRatio of the latest attempt
    lastTargetCount,         \* targetCount of the latest call of modify
    allSameCount,            \* every modify so far returned originalVertexCount
    allExact,                \* every modify so far returned targetCount vertices
                             \* and its result passed the quality checks
    accepted,                \* the candidate installed as mesh.geometry
    lastReduceThrew,         \* the latest call of modify threw
    lastOutcome,             \* how the latest iteration ended, "none" before it
    originalGeometry,        \* content of the clone saved on entry
    meshGeometry,            \* content of mesh.geometry
    reduceInput,             \* content of the latest argument of modify
    undisposed,              \* which of the geometries created by the attempts
                             \* ("clonedGeometry", "simplified") were left
                             \* neither disposed nor installed
    disposedTwice,           \* dispose() was called twice on one of them
    lastRecomputed,          \* the latest iteration recomputed the normals
    meshNormals,             \* the normal attribute of the mesh geometry:
                             \* "asCalled", "absent", "merged", "recomputed",
                             \* "simplified"
    returned                 \* "none", "true", "false"; "threw" would be an
                             \* exception leaving simplifyMesh

simpVars ==
    << path, config, pc, originalVertexCount, meshVertexCount,
       currentBestVertexCount, modified, dedupApplied, meshAnalysis,
       currentTargetRatio, attempts, simplificationSuccessful, reduceCalls,
       mergeCalls, lastUsedRatio, lastTargetCount, allSameCount, allExact, accepted,
       lastReduceThrew, lastOutcome, originalGeometry, meshGeometry,
       reduceInput, undisposed, disposedTwice,
       lastRecomputed, meshNormals, returned >>

(***************************************************************************)
(* State of one call of restoreMaterialGroups.                             *)
(***************************************************************************)
VARIABLES
    grpPc,                   \* "call", "done"
    materialInfo,            \* the groups saved by preserveMaterialGroups
    indexCount,              \* geometry.index.count of the geometry passed in
    groups                   \* geometry.groups

grpVars == << grpPc, materialInfo, indexCount, groups >>

(***************************************************************************)
(* State of optimizeModels while it processes one file.                    *)
(***************************************************************************)
VARIABLES
    expPc,                   \* "load", "meshes", "export", "conclude",
                             \* "recover", "done"
    file,                    \* currentFile: [kind, size, vertexCount, textureMB]
    useDraco,                \* optimizationConfig.useDraco
    anyOptimizationApplied,
    dracoApplied,
    exportConfigurations,    \* the names of the profiles, in order
    nextConfig,              \* index of the profile the for loop is at
    serialized,              \* names of the profiles exporter.parse was called on
    sizes,                   \* their sizes in the same order, -1 where it failed
    bestResult,              \* name of the profile whose bytes are kept, or "null"
    bestSize,
    results,                 \* the result records pushed for the file
    allAffectedNodes         \* the [name, change] entries logged for the file

expVars ==
    << expPc, file, useDraco, anyOptimizationApplied, dracoApplied,
       exportConfigurations, nextConfig, serialized, sizes, bestResult,
       bestSize,
       results, allAffectedNodes >>

(***************************************************************************)
(* State of optimizeModels while it hands the meshes of a file to workers, *)
(* one after the other (ThreeJsUtils.jsx 601-853).                         *)
(***************************************************************************)
VARIABLES
    wkPc,                    \* "start", "waiting" (await of line 709),
                             \* "fallback" (catch of line 805), "done"
    wkConfig,                \* optimizationConfig
    suppliedConfig,          \* the fields it had when optimizeModels was called
    objGeometry,             \* obj.geometry: where it comes from, its vertices
    meshIndex,               \* which mesh the for loop of line 601 is at
    workerState,             \* "none", "created" (nothing posted to it),
                             \* "running", "terminated"
    leftAlive,               \* workers of earlier meshes never terminated
    staleTimers,             \* timers of earlier meshes that are still armed
    timeoutId,               \* "unset", "armed", "cleared", "fired"
    reply,                   \* the worker's message queued for worker.onmessage
    workerReplied,           \* the worker has called self.postMessage
    errorEvent,              \* an error event is queued for worker.onerror
    promise,                 \* "none", "pending", "true", "false"
    channelFailure,          \* how the task ended without a reply, or "none"
    fallbackRan,             \* the catch of line 805 was entered
    simplificationApplied    \* the mesh counts as optimized (lines 800-803,
                             \* 848-851)

wkVars ==
    << wkPc, wkConfig, suppliedConfig, objGeometry, meshIndex, workerState, leftAlive,
       staleTimers, timeoutId, reply, workerReplied, errorEvent, promise,
       channelFailure, fallbackRan, simplificationApplied >>

(***************************************************************************)
(* State of toCreasedNormals while it computes the normal of one vertex    *)
(* (the body of the third pass, ThreeJsUtils.jsx 66-112).                  *)
(***************************************************************************)
VARIABLES
    crPc,                    \* "cluster" (loop of line 73), "done"
    creaseAngle,             \* in tenths of a degree
    vertexFaceNormals,       \* the normals of the faces at the vertex
    clustered,               \* how many of them the loop of line 73 has taken
    normalGroups,            \* [reference, normals] records, in order
    vertexNormal             \* avgNormal, components scaled by 1000

crVars ==
    << crPc, creaseAngle, vertexFaceNormals, clustered, normalGroups,
       vertexNormal >>

(***************************************************************************)
(* State of analyzeFeatureSizes (ThreeJsUtils.jsx 377-507), called twice   *)
(* on the same geometry.                                                   *)
(***************************************************************************)
VARIABLES
    anPc,                    \* "sample" (loop of line 406), "done"
    triangles,               \* per triangle: small, thin, posKey
    invocation,              \* which call on this geometry is running
    sampleIndex,             \* i of the loop of line 406
    analyzedTriangles,       \* the Set of line 387
    smallFeatureCount,
    thinFeatureCount,
    totalFeatures,
    densityMap,              \* posKey -> [count, small, thin]
    profiles                 \* the objects returned so far (line 497)

anVars ==
    << anPc, triangles, invocation, sampleIndex, analyzedTriangles,
       smallFeatureCount, thinFeatureCount, totalFeatures, densityMap,
       profiles >>

(***************************************************************************)
(* State of the loop of optimizeModels over the files of a batch           *)
(* (ThreeJsUtils.jsx 517-1209).                                            *)
(***************************************************************************)
VARIABLES
    btPc,                    \* "body" (541-1159), "catch" (1160-1193),
                             \* "publish" (1196-1198), "returned"
    fileCount,               \* file.length
    batchIndex,              \* i of the loop of line 528
    batchResults,            \* results: [file, from] records
    thrownAt,                \* where the body of each file threw, or "none"
    published                \* what setOptimizationResults was given

btVars ==
    << btPc, fileCount, batchIndex, batchResults, thrownAt, published >>

vars == << simpVars, grpVars, expVars, wkVars, crVars, anVars, btVars >>

(***************************************************************************)
(* checkForLostFeatures (ThreeJsUtils.jsx 348-374).  A profile is          *)
(* [small, thin, cx]: smallFeatureCount, thinFeatureCount and              *)
(* geometryComplexity in thousandths.  lossRatio is the exact quotient     *)
(* num / den, den > 0.                                                     *)
(***************************************************************************)
isHighDetail(cx) == cx > 400

checkForLostFeatures(originalFeatures, simplifiedFeatures) ==
    LET mS == Max(1, originalFeatures.small)
        mT == Max(1, originalFeatures.thin)
        mC == Max(100, originalFeatures.cx)
        dC == Abs(simplifiedFeatures.cx - originalFeatures.cx)
    IN  [ num |-> 35 * (mS - simplifiedFeatures.small) * mT * mC
                  + 45 * (mT - simplifiedFeatures.thin) * mS * mC
                  + 20 * dC * mS * mT,
          den |-> 100 * mS * mT * mC ]

\* lossRatio > t / 100
LossExceeds(loss, t) == loss.num * 100 > t * loss.den

\* Math.abs(newSize / originalSize - 1) > t / 1000 on some axis.
AxisDeviates(newAxis, t) ==
    Abs(newAxis - OriginalAxisSize) * 1000 > t * OriginalAxisSize

Distorted(newSize, t) == \E a \in 1..3 : AxisDeviates(newSize[a], t)

(***************************************************************************)
(* The policy numbers of the two simplifyMesh functions.                   *)
(***************************************************************************)
\* thousandths; ThreeJsUtils.jsx 251, simplifyMeshworker.js 159
distortionThreshold(p, highDetail) ==
    IF p = "inproc" THEN (IF highDetail THEN 10 ELSE 20)
    ELSE (IF highDetail THEN 100 ELSE 150)

\* hundredths; ThreeJsUtils.jsx 261, simplifyMeshworker.js 166
featureLossThreshold(p, highDetail) ==
    IF p = "inproc" THEN (IF highDetail THEN 10 ELSE 15)
    ELSE (IF highDetail THEN 50 ELSE 60)

\* Variant: the simple tier takes the factor of the middle tier.
simplificationFactorTwoTiers(p, cx, ratio) ==
    IF p = "inproc"
    THEN (IF cx > 700 THEN 15 ELSE 30) * ratio
    ELSE (IF cx > 700 THEN 85 ELSE 95) * ratio

\* hundredths; ThreeJsUtils.jsx 172-184, simplifyMeshworker.js 91-100
simplificationFactor(p, cx, ratio) ==
    IF p = "inproc"
    THEN (IF cx > 700 THEN 15 ELSE IF cx > 400 THEN 30 ELSE 70) * ratio
    ELSE (IF cx > 700 THEN 85 ELSE IF cx > 400 THEN 95 ELSE 98) * ratio

\* ThreeJsUtils.jsx 186-187, simplifyMeshworker.js 102
targetRatio(p, cx, ratio) ==
    Max(Scale - simplificationFactor(p, cx, ratio),
        IF p = "inproc" THEN 6000 ELSE 1000)

\* Variant: the bounds of the two files exchanged.
MAX_ATTEMPTS_Exchanged(p) == IF p = "inproc" THEN 5 ELSE 10

MAX_ATTEMPTS(p) == IF p = "inproc" THEN 10 ELSE 5

\* min(currentTargetRatio + step, 0.98)
Relaxed(ratio, step) == Min(ratio + step, 9800)

\* ThreeJsUtils.jsx 197-200, simplifyMeshworker.js 110-113
\* Variant: the target is the ratio's share of the original count alone.
targetCountOfRatio(ov, ratio, best) == (ov * ratio) \div Scale

targetCount(ov, ratio, best) == Min((ov * ratio) \div Scale, best - 1)

\* Variant: the while condition with <= for <.
LoopContinuesOffByOne(p, successful, n) ==
    ~successful /\ n <= MAX_ATTEMPTS(p)

\* the while condition, ThreeJsUtils.jsx 194, simplifyMeshworker.js 108
LoopContinues(p, successful, n) == ~successful /\ n < MAX_ATTEMPTS(p)

Thrown == [threw |-> TRUE]

(***************************************************************************)
(* What one call of modifier.modify (SimplifyModifier) can give: it throws,*)
(* or it returns a geometry, described by its vertex count, whether it     *)
(* carries a normal attribute, its bounding-box size, and the profile the  *)
(* analyser computes for it.                                               *)
(* The size and the profile of a result with count >= ov are never read    *)
(* (it is rejected at once), so one representative stands for them.        *)
(* comparatorThrows: the bounding-box computation or checkForLostFeatures  *)
(* throws on this result.                                                  *)
(***************************************************************************)
ReduceResults(p, target, ov) ==
    {Thrown}
    \cup [ threw : {FALSE},
           count : {ov, ov + 1},
           hasNormal : {TRUE},
           size : {<<OriginalAxisSize, OriginalAxisSize, OriginalAxisSize>>},
           features : {[small |-> 10, thin |-> 10, cx |-> 500]},
           comparatorThrows : {FALSE} ]
    \cup [ threw : {FALSE},
           count : {target, ov - 1},
           hasNormal : {TRUE},
           size : CandidateBoxes,
           features : CandidateProfiles,
           comparatorThrows : {FALSE} ]
    \* The normal attribute is read by the worker only; without it the
    \* worker's iteration ends at line 149, before the size and the profile
    \* are read.
    \cup [ threw : {FALSE},
           count : IF p = "inproc" THEN {} ELSE {target, ov - 1},
           hasNormal : {FALSE},
           size : {<<OriginalAxisSize, OriginalAxisSize, OriginalAxisSize>>},
           features : {[small |-> 10, thin |-> 10, cx |-> 500]},
           comparatorThrows : {FALSE} ]
    \cup [ threw : {FALSE},
           count : {target},
           hasNormal : {TRUE},
           size : {<<OriginalAxisSize, OriginalAxisSize, OriginalAxisSize>>},
           features : {[small |-> 10, thin |-> 10, cx |-> 500]},
           comparatorThrows : {TRUE} ]

\* mergeVertices: throws (-1) or returns a geometry with this vertex count.
MergeResults(count) == {-1, count - 2, count, count + 1}

(***************************************************************************)
(* Variant of the in-process iteration without the two vertex-count tests  *)
(* (lines 220 and 281): whatever passes the quality checks is accepted.    *)
(***************************************************************************)
inprocAttemptUnguarded(r, originalFeatures, ov, best, ratio, cx) ==
    IF r.threw \/ r.comparatorThrows
    THEN [outcome |-> "error", ratio |-> ratio]
    ELSE
      LET distortion ==
              Distorted(r.size, distortionThreshold("inproc", isHighDetail(cx)))
          featureAnalysis == checkForLostFeatures(originalFeatures, r.features)
          hasLostFeatures ==
              LossExceeds(featureAnalysis,
                          featureLossThreshold("inproc", isHighDetail(cx)))
      IN  IF distortion \/ hasLostFeatures
          THEN [outcome |-> IF Relaxed(ratio, 500) > 9000
                            THEN "giveUp" ELSE "rejectQuality",
                ratio |-> Relaxed(ratio, 500)]
          ELSE [outcome |-> "accept", ratio |-> ratio]

(***************************************************************************)
(* One iteration of the retry loop after modifier.modify has produced r,   *)
(* ThreeJsUtils.jsx 217-308: the outcome and the next currentTargetRatio.  *)
(* An exception leaves the loop for the catch of line 314.                 *)
(***************************************************************************)
inprocAttempt(r, originalFeatures, ov, best, ratio, cx) ==
    IF r.threw THEN [outcome |-> "error", ratio |-> ratio]
    ELSE IF r.count >= ov
    THEN [outcome |-> "rejectCount", ratio |-> Relaxed(ratio, 1000)]
    ELSE IF r.comparatorThrows
    THEN [outcome |-> "error", ratio |-> ratio]
    ELSE
      LET distortion ==
              Distorted(r.size, distortionThreshold("inproc", isHighDetail(cx)))
          featureAnalysis == checkForLostFeatures(originalFeatures, r.features)
          hasLostFeatures ==
              LossExceeds(featureAnalysis,
                          featureLossThreshold("inproc", isHighDetail(cx)))
      IN  IF distortion \/ hasLostFeatures
          THEN [outcome |-> IF Relaxed(ratio, 500) > 9000
                            THEN "giveUp" ELSE "rejectQuality",
                ratio |-> Relaxed(ratio, 500)]
          ELSE IF r.count < best
          THEN [outcome |-> "accept", ratio |-> ratio]
          ELSE [outcome |-> "rejectNotBetter", ratio |-> Relaxed(ratio, 500)]

(***************************************************************************)
(* The same iteration in the worker, simplifyMeshworker.js 129-231.  The   *)
(* statement "simplified = creased" (line 149) assigns to a const binding: *)
(* it throws a TypeError, caught by the catch of line 228.                 *)
(***************************************************************************)
workerAttempt(r, originalFeatures, ov, best, ratio, cx, preserveNormals) ==
    IF r.threw THEN [outcome |-> "caught", ratio |-> Relaxed(ratio, 1000)]
    ELSE IF r.count >= ov
    THEN [outcome |-> "rejectCount", ratio |-> Relaxed(ratio, 200)]
    ELSE IF ~preserveNormals \/ ~r.hasNormal \/ r.comparatorThrows
    THEN [outcome |-> "caught", ratio |-> Relaxed(ratio, 1000)]
    ELSE
      LET distortion ==
              Distorted(r.size, distortionThreshold("worker", isHighDetail(cx)))
          featureAnalysis == checkForLostFeatures(originalFeatures, r.features)
          hasLostFeatures ==
              LossExceeds(featureAnalysis,
                          featureLossThreshold("worker", isHighDetail(cx)))
      IN  IF distortion \/ hasLostFeatures
          THEN [outcome |-> "rejectQuality", ratio |-> Relaxed(ratio, 500)]
          ELSE IF r.count < best
          THEN [outcome |-> "accept", ratio |-> ratio]
          ELSE [outcome |-> "rejectNotBetter", ratio |-> Relaxed(ratio, 200)]

\* Whether the iteration reaches the recomputation of the candidate's
\* normals: always in-process (ThreeJsUtils.jsx 228-231), in the worker
\* under the test of line 145.
RecomputesNormals(p, r, ov, preserveNormals) ==
    /\ ~r.threw
    /\ r.count < ov
    /\ p = "worker" => (~preserveNormals \/ ~r.hasNormal)

simplifyAttempt(p, r, originalFeatures, ov, best, ratio, cx, preserveNormals) ==
    IF p = "inproc"
    THEN inprocAttempt(r, originalFeatures, ov, best, ratio, cx)
    ELSE workerAttempt(r, originalFeatures, ov, best, ratio, cx, preserveNormals)

(***************************************************************************)
(* The geometry handed to modifier.modify, ThreeJsUtils.jsx 216,           *)
(* simplifyMeshworker.js 127: originalGeometry.clone().  A clone has the   *)
(* content of what it is cloned from.                                      *)
(***************************************************************************)
\* Variant: the attempt clones the geometry the mesh currently has.
clonedGeometryOfMesh(original, current) == current

clonedGeometry(original, current) == original

(***************************************************************************)
(* What one iteration leaves behind of the geometries it created: the      *)
(* clone handed to modify and, unless modify threw, its result.            *)
(* toCreasedNormals returns the geometry it was given (line 115), so       *)
(* in-process "simplified" and "creased" name one object, and              *)
(* "simplified.dispose(); creased.dispose()" (lines 272-273, 304-305)      *)
(* disposes it twice.  No path disposes clonedGeometry.  The worker copies *)
(* an accepted result's arrays into the mesh geometry (lines 178-204) and  *)
(* leaves the result itself alone.                                         *)
(* undisposed: which of them are neither disposed nor installed.           *)
(***************************************************************************)
AttemptDisposal(p, r, outcome, preserveNormals) ==
    IF r.threw THEN [undisposed |-> {"clonedGeometry"}, twice |-> FALSE]
    ELSE IF p = "inproc"
    THEN CASE outcome = "rejectCount" -> [undisposed |-> {"clonedGeometry"}, twice |-> FALSE]
           [] outcome = "error" -> [undisposed |-> {"clonedGeometry", "simplified"}, twice |-> FALSE]
           [] outcome = "accept" -> [undisposed |-> {"clonedGeometry"}, twice |-> FALSE]
           [] OTHER -> [undisposed |-> {"clonedGeometry"}, twice |-> TRUE]
    ELSE CASE outcome = "caught" ->
                \* line 148 disposes the result before line 149 throws
                IF ~preserveNormals \/ ~r.hasNormal
                THEN [undisposed |-> {"clonedGeometry"}, twice |-> FALSE]
                ELSE [undisposed |-> {"clonedGeometry", "simplified"}, twice |-> FALSE]
           [] outcome = "accept" -> [undisposed |-> {"clonedGeometry", "simplified"}, twice |-> FALSE]
           [] OTHER -> [undisposed |-> {"clonedGeometry"}, twice |-> FALSE]

(***************************************************************************)
(* restoreMaterialGroups (ThreeJsUtils.jsx 326-346).  Both oldIndexCount   *)
(* and newIndexCount are read from the geometry passed in (lines 328-329). *)
(***************************************************************************)
MaxGroups == 3
MaxGroupCount == 6
MaxIndexCount == 9

oldIndexCountOf(geometryIndexCount) == geometryIndexCount
newIndexCountOf(geometryIndexCount) == geometryIndexCount

\* JavaScript arithmetic on the values that occur here: integers and NaN
\* (0 / 0, and everything computed from it).  NaN is kept apart from every
\* number the model computes; it is only ever tested with = and #.
NaN == -999999
JsAdd(a, b) == IF a = NaN \/ b = NaN THEN NaN ELSE a + b
JsSub(a, b) == IF a = NaN \/ b = NaN THEN NaN ELSE a - b
JsGreater(a, b) == a # NaN /\ b # NaN /\ a > b

\* Math.floor(x * (new / old)) for counts new = old = 0 or old > 0
FloorScaled(x, new, old) ==
    IF old = 0 THEN NaN ELSE (x * new) \div old

\* lines 331-335
ScaleGroups(gs, new, old) ==
    [ i \in 1..Len(gs) |->
        [ start |-> FloorScaled(gs[i].start, new, old),
          count |-> FloorScaled(gs[i].count, new, old),
          materialIndex |-> gs[i].materialIndex ] ]

\* lines 336-344: the forEach that re-packs the groups
RECURSIVE RepackGroups(_, _, _)
RepackGroups(gs, currentOffset, newIndexCount) ==
    IF gs = << >> THEN << >>
    ELSE LET g == Head(gs)
             offset == JsAdd(currentOffset, g.count)
             excess == JsSub(offset, newIndexCount)
         IN  << [ start |-> currentOffset,
                  count |-> IF JsGreater(offset, newIndexCount)
                            THEN JsSub(g.count, excess) ELSE g.count,
                  materialIndex |-> g.materialIndex ] >>
             \o RepackGroups(Tail(gs), offset, newIndexCount)

restoreMaterialGroups(geometryIndexCount, info) ==
    RepackGroups(ScaleGroups(info, newIndexCountOf(geometryIndexCount),
                             oldIndexCountOf(geometryIndexCount)),
                 0, newIndexCountOf(geometryIndexCount))

\* Groups as a loader leaves them: contiguous from 0, one material each.
RECURSIVE Contiguous(_, _, _)
Contiguous(counts, start, k) ==
    IF counts = << >> THEN << >>
    ELSE << [start |-> start, count |-> Head(counts), materialIndex |-> k] >>
         \o Contiguous(Tail(counts), start + Head(counts), k + 1)

GroupLists ==
    { Contiguous(cs, 0, 0) :
        cs \in UNION { [1..n -> 0..MaxGroupCount] : n \in 1..MaxGroups } }

InitGroups ==
    /\ grpPc = "call"
    /\ materialInfo \in GroupLists
    /\ indexCount \in 0..MaxIndexCount
    /\ groups = << >>

IdleGroups ==
    /\ grpPc = "idle"
    /\ materialInfo = << >>
    /\ indexCount = 0
    /\ groups = << >>

RestoreGroups ==
    /\ grpPc = "call"
    /\ groups' = restoreMaterialGroups(indexCount, materialInfo)
    /\ grpPc' = "done"
    /\ UNCHANGED << materialInfo, indexCount >>

SumCounts(gs) ==
    LET RECURSIVE Sum(_)
        Sum(i) == IF i = 0 THEN 0 ELSE JsAdd(gs[i].count, Sum(i - 1))
    IN  Sum(Len(gs))

(***************************************************************************)
(* optimizeModels, for one file: the export candidate search               *)
(* (ThreeJsUtils.jsx 947-1044), the result record (1046-1159), the         *)
(* recovery after an exception (1160-1193) and applyMinimalCompression     *)
(* (1211-1255).  A reported size is kept in hundredths of a byte, since    *)
(* originalSize * 0.98 need not be a whole number; byte lengths are whole. *)
(***************************************************************************)
OriginalSizes == {1001, 1100000}
ModelVertexCounts == {100, 10000}

\* stands for JavaScript's Infinity: larger than every size of the model
Infinity == 1000 * 1000 * 1000

\* Byte sizes a serialization of the scene may have, for a file of n bytes.
ExportSizes(n) == { (n * pc100) \div 100 : pc100 \in {60, 92, 95, 100, 120} }

Files ==
    [ kind : {"glb", "gltf", "other"},
      size : OriginalSizes,
      vertexCount : ModelVertexCounts,
      textureMB : {0, 2} ]

\* line 585
isModelSmall(f) == f.vertexCount < 5000 \/ f.size < 1 * 1024 * 1024

\* lines 948-1015
ExportConfigurationsOf(f, draco) ==
    (IF draco THEN << "Draco compression", "Compatible Draco compression" >>
     ELSE << >>)
    \o << "Binary encoding without Draco" >>
    \o (IF f.textureMB > 1 THEN << "With aggressive texture compression" >>
        ELSE << >>)

\* config.options.draco
HasDracoOptions(name) ==
    name \in {"Draco compression", "Compatible Draco compression"}

\* Variant: the search stops only below half of the original size.
BeatsHalf(size, originalSize) == size * 10 < originalSize * 5

\* line 1037
BeatsTarget(size, originalSize) == size * 10 < originalSize * 7

(***************************************************************************)
(* applyMinimalCompression(file), lines 1211-1255.  obs is what the call   *)
(* observes of the file: whether arrayBuffer() rejects, whether the GLB    *)
(* magic is valid, the length field of the GLB header, whether the text    *)
(* parses as JSON and the length of its re-serialization.  The value is    *)
(* the byte length of the Blob returned, or -1 when the call throws.       *)
(***************************************************************************)
FileObservations(f) ==
    [ bufferFails : BOOLEAN,
      \* read for a .glb only
      magicOk : IF f.kind = "glb" THEN BOOLEAN ELSE {FALSE},
      headerLength : IF f.kind = "glb" THEN {f.size \div 2, f.size}
                     ELSE {f.size},
      \* read for a .gltf only
      jsonOk : IF f.kind = "gltf" THEN BOOLEAN ELSE {FALSE},
      minifiedLength : IF f.kind = "gltf"
                       THEN {(f.size * 8) \div 10, f.size, f.size + 1}
                       ELSE {f.size} ]

applyMinimalCompression(f, obs) ==
    IF obs.bufferFails THEN -1
    ELSE IF f.kind = "glb" /\ obs.magicOk
    THEN \* buffer.slice(0, 12 + length): the end is clamped to byteLength
         Min(f.size, 12 + obs.headerLength)
    ELSE IF f.kind = "gltf" /\ obs.jsonOk
    THEN obs.minifiedLength
    ELSE (f.size * 98) \div 100

\* lines 1116-1123, in hundredths of a byte
ForcedDracoSize(f, draco, applied, size100) ==
    IF draco /\ applied /\ size100 > f.size * 90
    THEN f.size * (100 - (IF isModelSmall(f) THEN 5 ELSE 15))
    ELSE size100

finalSize(f, draco, applied, size) ==
    Min(ForcedDracoSize(f, draco, applied, size * 100), f.size * 98)

\* JSON.stringify of an ArrayBuffer is "{}" (line 1103)
MinifiedArrayBufferLength == 2

InitExport ==
    /\ expPc = "load"
    /\ file \in Files
    /\ useDraco \in BOOLEAN
    /\ anyOptimizationApplied = FALSE
    /\ dracoApplied = FALSE
    /\ exportConfigurations = << >>
    /\ nextConfig = 1
    /\ serialized = << >>
    /\ sizes = << >>
    /\ bestResult = "null"
    /\ bestSize = Infinity
    /\ results = << >>
    /\ allAffectedNodes = {}

IdleExport ==
    /\ expPc = "idle"
    /\ file = [kind |-> "glb", size |-> 0, vertexCount |-> 0, textureMB |-> 0]
    /\ useDraco = FALSE
    /\ anyOptimizationApplied = FALSE
    /\ dracoApplied = FALSE
    /\ exportConfigurations = << >>
    /\ nextConfig = 1
    /\ serialized = << >>
    /\ sizes = << >>
    /\ bestResult = "null"
    /\ bestSize = Infinity
    /\ results = << >>
    /\ allAffectedNodes = {}

\* lines 541-557: the loader resolves, or rejects into the catch of line 1160
LoadFile ==
    /\ expPc = "load"
    /\ \E ok \in BOOLEAN : expPc' = IF ok THEN "meshes" ELSE "recover"
    /\ UNCHANGED << file, useDraco, anyOptimizationApplied, dracoApplied,
                    exportConfigurations, nextConfig, serialized, sizes,
                    bestResult,
                    bestSize, results, allAffectedNodes >>

\* lines 598-1015: the loop over the meshes, of which the export keeps
\* anyOptimizationApplied, then the list of export configurations
ProcessMeshes ==
    /\ expPc = "meshes"
    /\ anyOptimizationApplied' \in BOOLEAN
    /\ exportConfigurations' = ExportConfigurationsOf(file, useDraco)
    /\ expPc' = "export"
    /\ UNCHANGED << file, useDraco, dracoApplied, nextConfig, serialized, sizes,
                    bestResult, bestSize, results, allAffectedNodes >>

\* Variant: a candidate of the same size replaces the one kept.
ImprovesOrTies(size, best) == size <= best

\* line 1033
Improves(size, best) == size < best

\* Variant: a failed serialization ends the loop.
AfterCandidateStopsOnFailure(size, best, originalSize, index, count) ==
    IF \/ size < 0
       \/ (size >= 0 /\ size < best /\ BeatsTarget(size, originalSize))
       \/ index = count
    THEN "conclude" ELSE "export"

\* Where the for loop of lines 1021-1044 goes after one profile: it ends
\* with the break of line 1038 or after the last profile; a failed
\* serialization (size = -1) is caught inside the loop and goes on.
AfterCandidate(size, best, originalSize, index, count) ==
    IF \/ (size >= 0 /\ Improves(size, best)
              /\ BeatsTarget(size, originalSize))
       \/ index = count
    THEN "conclude" ELSE "export"

\* lines 1021-1044: one iteration of the loop over exportConfigurations;
\* size = -1 when exporter.parse fails (caught at line 1041)
ExportCandidate ==
    /\ expPc = "export"
    /\ nextConfig <= Len(exportConfigurations)
    /\ LET name == exportConfigurations[nextConfig]
       IN  \E size \in {-1} \cup ExportSizes(file.size) :
             /\ serialized' = Append(serialized, name)
             /\ sizes' = Append(sizes, size)
             /\ dracoApplied' =
                  (dracoApplied \/ (size >= 0 /\ HasDracoOptions(name)
                                      /\ size < Infinity))
             /\ IF size >= 0 /\ Improves(size, bestSize)
                THEN /\ bestSize' = size
                     /\ bestResult' = name
                ELSE UNCHANGED << bestSize, bestResult >>
             /\ nextConfig' = nextConfig + 1
             /\ expPc' = AfterCandidate(size, bestSize, file.size, nextConfig,
                                        Len(exportConfigurations))
    /\ UNCHANGED << file, useDraco, anyOptimizationApplied,
                    exportConfigurations, results, allAffectedNodes >>

\* lines 1046-1052
DracoEntry(draco, applied) ==
    IF draco /\ applied
    THEN { << "Compression", "Applied Draco compression" >> }
    ELSE {}

\* The entries of fileAffectedNodes and allAffectedNodes that come with a
\* record: lines 1048-1051, 1064-1067, 1106, 1135, 1151-1154, 1172-1175,
\* 1183-1186.  The entries of the meshes (927) are left out.
Changes(from, draco, applied, best, minified) ==
    CASE from = "candidate" ->
           DracoEntry(draco, applied) \cup { << "Global", "Used", best >> }
      [] from = "basic" ->
           DracoEntry(draco, applied)
           \cup (IF minified
                 THEN { << "Global", "Applied minimal optimization" >> }
                 ELSE {})
      [] from = "minimal" ->
           { << "Global", "Applied basic file compression" >> }
      [] from = "recovery" ->
           { << "Recovery", "Applied minimal compression after error" >> }
      [] from = "lastResort" ->
           { << "Error",
                "Optimization failed - using original with minimal compression" >> }

Record(f, optimized100, blob, from) ==
    [ originalSize |-> f.size, optimizedSize100 |-> optimized100,
      blobSize |-> blob, from |-> from ]

\* lines 1046-1159: the result record of the file.  basic is the size of the
\* extra export of lines 1069-1088 (-1: it fails), obs what
\* applyMinimalCompression observes; an exception goes to line 1160.
Conclude ==
    /\ expPc = "conclude"
    /\ \E basic \in {-1} \cup ExportSizes(file.size),
          obs \in FileObservations(file) :
         LET any == anyOptimizationApplied \/ (useDraco /\ dracoApplied)
             minimal == applyMinimalCompression(file, obs)
         IN  /\ anyOptimizationApplied' = any
             /\ IF (bestResult # "null" /\ bestSize < file.size) \/ any
                THEN IF bestResult # "null"
                     THEN /\ results' = Append(results,
                               Record(file,
                                      finalSize(file, useDraco, dracoApplied,
                                                bestSize),
                                      bestSize, "candidate"))
                          /\ allAffectedNodes' =
                                 Changes("candidate", useDraco, dracoApplied,
                                         bestResult, FALSE)
                          /\ expPc' = "done"
                          /\ UNCHANGED bestSize
                     ELSE IF basic = -1
                     THEN /\ expPc' = "recover"
                          /\ UNCHANGED << results, bestSize,
                                          allAffectedNodes >>
                     ELSE LET size == IF basic >= file.size /\ any
                                      THEN MinifiedArrayBufferLength
                                      ELSE basic
                          IN  /\ bestSize' = size
                              /\ results' = Append(results,
                                   Record(file,
                                          finalSize(file, useDraco,
                                                    dracoApplied, size),
                                          size, "basic"))
                              /\ allAffectedNodes' =
                                     Changes("basic", useDraco, dracoApplied,
                                             bestResult,
                                             basic >= file.size /\ any)
                              /\ expPc' = "done"
                ELSE IF minimal = -1
                     THEN /\ expPc' = "recover"
                          /\ UNCHANGED << results, bestSize,
                                          allAffectedNodes >>
                     ELSE /\ results' = Append(results,
                               Record(file, minimal * 100, minimal, "minimal"))
                          /\ allAffectedNodes' =
                                 Changes("minimal", useDraco, dracoApplied,
                                         bestResult, FALSE)
                          /\ expPc' = "done"
                          /\ UNCHANGED bestSize
    /\ UNCHANGED << file, useDraco, dracoApplied, exportConfigurations,
                    nextConfig, serialized, sizes, bestResult >>

\* lines 1160-1193: the catch (innerError)
Recover ==
    /\ expPc = "recover"
    /\ \E obs \in FileObservations(file) :
         LET minimal == applyMinimalCompression(file, obs)
         IN  /\ results' = Append(results,
                   IF minimal = -1
                   THEN \* currentFile.slice(0, currentFile.size)
                        Record(file, file.size * 98, file.size, "lastResort")
                   ELSE Record(file, minimal * 100, minimal, "recovery"))
             /\ allAffectedNodes' =
                    Changes(IF minimal = -1 THEN "lastResort" ELSE "recovery",
                            useDraco, dracoApplied, bestResult, FALSE)
    /\ expPc' = "done"
    /\ UNCHANGED << file, useDraco, anyOptimizationApplied, dracoApplied,
                    exportConfigurations, nextConfig, serialized, sizes,
                    bestResult,
                    bestSize >>

(***************************************************************************)
(* The worker channel of optimizeModels, ThreeJsUtils.jsx 605-853, and the *)
(* worker's side of it, simplifyMeshworker.js 246-326.                     *)
(***************************************************************************)
NoMessage == [kind |-> "none"]

\* meshes in the file
MaxMeshes == 2

WorkerConfigs ==
    [ removeDuplicates : BOOLEAN,
      simplifyGeometry : BOOLEAN,
      simplificationRatio : SimplificationRatios,
      \* the field as the caller set it; ModelCompression.jsx 48-55 leaves
      \* it out
      preserveNormals : {"absent", "true", "false"} ]

\* optimizationConfig.preserveNormals ?? true, assigned to the field
\* (line 707)
WithPreserveNormals(c) ==
    [c EXCEPT !.preserveNormals = IF @ = "absent" THEN "true" ELSE @]

\* What self.postMessage sends for a mesh of n vertices: an error (line 320)
\* or the geometry after simplifyMesh with its modified flag (line 318).
WorkerMessages(n) ==
    { [kind |-> "error"] }
    \cup [ kind : {"result"}, modified : {TRUE}, count : {n - 1, n} ]
    \cup [ kind : {"result"}, modified : {FALSE}, count : {n} ]

\* Variant: terminate() leaves a queued message in place.
NotDiscarded(message) == message

\* worker.terminate() discards what the worker has queued for the page.
Discarded(message) == NoMessage

\* worker.terminate()
Terminated(state) == "terminated"

\* a worker that was created and not terminated
Alive(state) == state \in {"created", "running"}

\* resolve(v): only the first call settles the promise
Resolved(p, v) == IF p = "pending" THEN v ELSE p

Failure(current, p, cause) ==
    IF current = "none" /\ p = "pending" THEN cause ELSE current

InitWorker ==
    /\ wkPc = "start"
    /\ wkConfig \in WorkerConfigs
    /\ suppliedConfig = wkConfig
    /\ objGeometry \in [ from : {"original"}, count : VertexCounts ]
    /\ meshIndex = 1
    /\ workerState = "none"
    /\ leftAlive = 0
    /\ staleTimers = 0
    /\ timeoutId = "unset"
    /\ reply = NoMessage
    /\ workerReplied = FALSE
    /\ errorEvent = FALSE
    /\ promise = "none"
    /\ channelFailure = "none"
    /\ fallbackRan = FALSE
    /\ simplificationApplied = FALSE

IdleWorker ==
    /\ wkPc = "idle"
    /\ wkConfig = [ removeDuplicates |-> FALSE, simplifyGeometry |-> FALSE,
                    simplificationRatio |-> 1, preserveNormals |-> "absent" ]
    /\ suppliedConfig = wkConfig
    /\ objGeometry = [ from |-> "original", count |-> 0 ]
    /\ meshIndex = 1
    /\ workerState = "none"
    /\ leftAlive = 0
    /\ staleTimers = 0
    /\ timeoutId = "unset"
    /\ reply = NoMessage
    /\ workerReplied = FALSE
    /\ errorEvent = FALSE
    /\ promise = "none"
    /\ channelFailure = "none"
    /\ fallbackRan = FALSE
    /\ simplificationApplied = FALSE

\* lines 605-798, up to the await: new Worker (607), the copies of the
\* attribute arrays (610-706), the promise executor with setTimeout (710)
\* and worker.postMessage (793, its catch 794-798).  An exception of line
\* 607 or of lines 608-706 goes to the catch of line 805, which does not
\* touch the worker.  Line 707 writes preserveNormals into the
\* configuration object before the promise is made.
Submit ==
    /\ wkPc = "start"
    /\ IF ~(wkConfig.simplifyGeometry \/ wkConfig.removeDuplicates)
       THEN /\ wkPc' = "done"
            /\ UNCHANGED << workerState, timeoutId, promise, channelFailure >>
       ELSE \E outcome \in {"constructThrows", "prepareThrows", "postThrows",
                            "posted"} :
              CASE outcome = "constructThrows" ->
                     /\ wkPc' = "fallback"
                     /\ channelFailure' = "construct"
                     /\ UNCHANGED << workerState, timeoutId, promise >>
                [] outcome = "prepareThrows" ->
                     /\ wkPc' = "fallback"
                     /\ workerState' = "created"
                     /\ channelFailure' = "prepare"
                     /\ UNCHANGED << timeoutId, promise >>
                [] outcome = "postThrows" ->
                     /\ wkPc' = "waiting"
                     /\ timeoutId' = "armed"
                     /\ workerState' = Terminated(workerState)
                     /\ promise' = "false"
                     /\ channelFailure' = "post"
                [] outcome = "posted" ->
                     /\ wkPc' = "waiting"
                     /\ timeoutId' = "armed"
                     /\ workerState' = "running"
                     /\ promise' = "pending"
                     /\ UNCHANGED channelFailure
    /\ wkConfig' = IF wkPc' = "waiting"
                   THEN WithPreserveNormals(wkConfig)
                   ELSE wkConfig
    /\ UNCHANGED << meshIndex, leftAlive, staleTimers, suppliedConfig,
                    objGeometry, reply, workerReplied, errorEvent,
                    fallbackRan, simplificationApplied >>

\* simplifyMeshworker.js 246-326: the worker answers once
WorkerPosts ==
    /\ workerState = "running"
    /\ ~workerReplied
    /\ reply' \in WorkerMessages(objGeometry.count)
    /\ workerReplied' = TRUE
    /\ UNCHANGED << meshIndex, leftAlive, staleTimers, wkPc, wkConfig, suppliedConfig, objGeometry, workerState, timeoutId,
                    errorEvent, promise, channelFailure, fallbackRan,
                    simplificationApplied >>

\* an uncaught error in the worker (its script fails to load or to run)
WorkerErrors ==
    /\ workerState = "running"
    /\ ~errorEvent
    /\ errorEvent' = TRUE
    /\ UNCHANGED << meshIndex, leftAlive, staleTimers, wkPc, wkConfig, suppliedConfig, objGeometry, workerState, timeoutId,
                    reply, workerReplied, promise, channelFailure,
                    fallbackRan, simplificationApplied >>

\* worker.onmessage, lines 716-782
OnMessage ==
    /\ reply # NoMessage
    /\ timeoutId' = IF timeoutId = "armed" THEN "cleared" ELSE timeoutId
    /\ workerState' = Terminated(workerState)
    /\ reply' = NoMessage
    /\ errorEvent' = FALSE
    /\ IF reply.kind = "error"
       THEN /\ promise' = Resolved(promise, "false")
            /\ channelFailure' = Failure(channelFailure, promise, "errorReply")
            /\ UNCHANGED objGeometry
       ELSE \E applyThrows \in BOOLEAN :
              /\ objGeometry' =
                   IF applyThrows
                   THEN \* the catch of line 777, after line 738
                        [ from |-> "partial", count |-> 0 ]
                   ELSE [ from |-> "reply", count |-> reply.count ]
              /\ promise' = Resolved(promise,
                                IF ~applyThrows /\ reply.modified
                                THEN "true" ELSE "false")
              /\ UNCHANGED channelFailure
    /\ UNCHANGED << meshIndex, leftAlive, staleTimers, wkPc, wkConfig, suppliedConfig, workerReplied, fallbackRan,
                    simplificationApplied >>

\* worker.onerror, lines 784-789
OnError ==
    /\ errorEvent
    /\ timeoutId' = IF timeoutId = "armed" THEN "cleared" ELSE timeoutId
    /\ workerState' = Terminated(workerState)
    /\ reply' = Discarded(reply)
    /\ errorEvent' = FALSE
    /\ promise' = Resolved(promise, "false")
    /\ channelFailure' = Failure(channelFailure, promise, "onerror")
    /\ UNCHANGED << meshIndex, leftAlive, staleTimers, wkPc, wkConfig, suppliedConfig, objGeometry, workerReplied, fallbackRan,
                    simplificationApplied >>

\* the callback of setTimeout, lines 710-714
TimerFires ==
    /\ timeoutId = "armed"
    /\ timeoutId' = "fired"
    /\ workerState' = Terminated(workerState)
    /\ reply' = Discarded(reply)
    /\ errorEvent' = FALSE
    /\ promise' = Resolved(promise, "false")
    /\ channelFailure' = Failure(channelFailure, promise, "timeout")
    /\ UNCHANGED << meshIndex, leftAlive, staleTimers, wkPc, wkConfig, suppliedConfig, objGeometry, workerReplied, fallbackRan,
                    simplificationApplied >>

\* lines 800-803: the await returns
AfterAwait ==
    /\ wkPc = "waiting"
    /\ promise \in {"true", "false"}
    /\ simplificationApplied' = (promise = "true")
    /\ wkPc' = "done"
    /\ UNCHANGED << meshIndex, leftAlive, staleTimers, wkConfig, suppliedConfig, objGeometry, workerState, timeoutId, reply,
                    workerReplied, errorEvent, promise, channelFailure,
                    fallbackRan >>

\* The timer of an earlier mesh fires: its callback (lines 710-714)
\* terminates the worker of that mesh, which the catch of line 794 has
\* terminated already, and calls resolve on a settled promise.
StaleTimerFires ==
    /\ staleTimers > 0
    /\ staleTimers' = staleTimers - 1
    /\ UNCHANGED << wkPc, wkConfig, suppliedConfig, objGeometry, meshIndex, workerState,
                    leftAlive, timeoutId, reply, workerReplied, errorEvent,
                    promise, channelFailure, fallbackRan,
                    simplificationApplied >>

\* line 601: the for loop takes the next mesh.  The worker, the timer and
\* the promise of the mesh before are out of scope; a worker that was not
\* terminated has no handlers and was sent nothing.
NextMesh ==
    /\ wkPc = "done"
    /\ meshIndex < MaxMeshes
    /\ meshIndex' = meshIndex + 1
    /\ leftAlive' = leftAlive + (IF Alive(workerState) THEN 1 ELSE 0)
    /\ staleTimers' = staleTimers + (IF timeoutId = "armed" THEN 1 ELSE 0)
    /\ wkPc' = "start"
    /\ objGeometry' \in [ from : {"original"}, count : VertexCounts ]
    /\ workerState' = "none"
    /\ timeoutId' = "unset"
    /\ reply' = NoMessage
    /\ workerReplied' = FALSE
    /\ errorEvent' = FALSE
    /\ promise' = "none"
    /\ channelFailure' = "none"
    /\ fallbackRan' = FALSE
    /\ simplificationApplied' = FALSE
    /\ UNCHANGED << wkConfig, suppliedConfig >>

\* lines 813-827: merged = -1 when THREE.BufferGeometryUtils is missing or
\* mergeVertices throws
FallbackMerge(cfg, count, merged) ==
    IF cfg.removeDuplicates /\ merged >= 0 /\ merged < count
    THEN merged ELSE count

\* lines 832-833
FallbackTargetCount(cfg, count) ==
    Max(100, (count * cfg.simplificationRatio) \div 100)

\* lines 830-846: simplified = -1 when THREE.SimplifyModifier is missing or
\* modify throws
FallbackSimplify(cfg, count, simplified) ==
    IF /\ cfg.simplifyGeometry
       /\ FallbackTargetCount(cfg, count) * 10 < count * 9
       /\ simplified >= 0 /\ simplified < count
    THEN simplified ELSE count

\* lines 805-852: the catch (workerError)
Fallback ==
    /\ wkPc = "fallback"
    /\ fallbackRan' = TRUE
    /\ \E merged \in {-1, objGeometry.count - 2, objGeometry.count},
          exact \in BOOLEAN, throws \in BOOLEAN :
         LET afterMerge == FallbackMerge(wkConfig, objGeometry.count, merged)
             simplified == IF throws THEN -1
                           ELSE IF exact
                           THEN FallbackTargetCount(wkConfig, afterMerge)
                           ELSE afterMerge
             final == FallbackSimplify(wkConfig, afterMerge, simplified)
         IN  /\ objGeometry' =
                  IF final < afterMerge
                  THEN [ from |-> "simplified", count |-> final ]
                  ELSE IF afterMerge < objGeometry.count
                  THEN [ from |-> "merged", count |-> afterMerge ]
                  ELSE objGeometry
             /\ simplificationApplied' = (final < objGeometry.count)
    /\ wkPc' = "done"
    /\ UNCHANGED << meshIndex, leftAlive, staleTimers, wkConfig, suppliedConfig, workerState, timeoutId, reply, workerReplied,
                    errorEvent, promise, channelFailure >>

(***************************************************************************)
(* toCreasedNormals (ThreeJsUtils.jsx 11-116), for one vertex.  Face       *)
(* normals are unit vectors along the axes, so a dot product of two of     *)
(* them is -1, 0 or 1; dot products and cosines are scaled by 1000.        *)
(***************************************************************************)
MaxFaces == 3

Directions ==
    { <<1, 0, 0>>, <<-1, 0, 0>>, <<0, 1, 0>>, <<0, -1, 0>>,
      <<0, 0, 1>>, <<0, 0, -1>> }

\* the crease angles the callers pass (2.5 and 3 degrees, lines 230 / 146),
\* the default (10) and an obtuse one
CreaseAngles == {25, 30, 100, 950}

Dot(a, b) == a[1] * b[1] + a[2] * b[2] + a[3] * b[3]

VAdd(a, b) == << a[1] + b[1], a[2] + b[2], a[3] + b[3] >>

\* Variant: Math.cos applied to the angle as if it were in radians;
\* floor(1000 * cos(a)) for a = 2.5, 3, 10, 95.
creaseDotOfRadians(angle) ==
    CASE angle = 25 -> -802
      [] angle = 30 -> -990
      [] angle = 100 -> -840
      [] angle = 950 -> 730

\* line 13: Math.cos((creaseAngle * Math.PI) / 180), as
\* floor(1000 * cos(a degrees)) for a = 2.5, 3, 10, 95.  For a whole number
\* d, d > 1000 * cos exactly when d > floor(1000 * cos).
creaseDot(angle) ==
    CASE angle = 25 -> 999
      [] angle = 30 -> 998
      [] angle = 100 -> 984
      [] angle = 950 -> -88

\* lines 76-82: the index of the first group the normal joins, 0 if none
FoundGroup(normal, gs, angle) ==
    LET joins == { g \in 1..Len(gs) :
                     Dot(normal, gs[g].reference) * 1000 > creaseDot(angle) }
    IN  IF joins = {} THEN 0
        ELSE CHOOSE g \in joins : \A h \in joins : g <= h

\* lines 94-99: the first group that no other group exceeds in size
DominantGroup(gs) ==
    CHOOSE g \in 1..Len(gs) :
        /\ \A h \in 1..Len(gs) : Len(gs[h].normals) <= Len(gs[g].normals)
        /\ \A h \in 1..(g - 1) : Len(gs[h].normals) < Len(gs[g].normals)

RECURSIVE SumNormals(_)
SumNormals(ns) ==
    IF ns = << >> THEN <<0, 0, 0>>
    ELSE VAdd(Head(ns), SumNormals(Tail(ns)))

\* floor(1000 * sqrt(n))
Length1000(n) ==
    CHOOSE l \in 0..(1000 * MaxFaces + 1000) :
        l * l <= n * 1000000 /\ (l + 1) * (l + 1) > n * 1000000

Truncated(a, b) == IF a >= 0 THEN a \div b ELSE -((-a) \div b)

\* Vector3.normalize: divideScalar(length() || 1); components scaled by 1000
Normalize(v) ==
    LET l == Length1000(Dot(v, v))
    IN  IF l = 0 THEN <<0, 0, 0>>
        ELSE [ a \in 1..3 |-> Truncated(v[a] * 1000000, l) ]

FaceNormalLists ==
    UNION { [1..n -> Directions] : n \in 1..MaxFaces }

InitCrease ==
    /\ crPc = "cluster"
    /\ creaseAngle \in CreaseAngles
    /\ vertexFaceNormals \in FaceNormalLists
    /\ clustered = 0
    /\ normalGroups = << >>
    /\ vertexNormal = <<0, 0, 0>>

IdleCrease ==
    /\ crPc = "idle"
    /\ creaseAngle = 100
    /\ vertexFaceNormals = << >>
    /\ clustered = 0
    /\ normalGroups = << >>
    /\ vertexNormal = <<0, 0, 0>>

\* one iteration of the loop of lines 73-91
ClusterNormal ==
    /\ crPc = "cluster"
    /\ clustered < Len(vertexFaceNormals)
    /\ LET normal == vertexFaceNormals[clustered + 1]
           g == FoundGroup(normal, normalGroups, creaseAngle)
       IN  normalGroups' =
              IF g = 0
              THEN Append(normalGroups,
                          [reference |-> normal, normals |-> <<normal>>])
              ELSE [normalGroups EXCEPT ![g].normals = Append(@, normal)]
    /\ clustered' = clustered + 1
    /\ UNCHANGED << crPc, creaseAngle, vertexFaceNormals, vertexNormal >>

\* lines 93-111
AverageDominant ==
    /\ crPc = "cluster"
    /\ clustered = Len(vertexFaceNormals)
    /\ vertexNormal' =
          Normalize(SumNormals(normalGroups[DominantGroup(normalGroups)].normals))
    /\ crPc' = "done"
    /\ UNCHANGED << creaseAngle, vertexFaceNormals, clustered, normalGroups >>

(***************************************************************************)
(* simplifyMesh as a state machine.                                        *)
(***************************************************************************)
Configs ==
    [ removeDuplicates : BOOLEAN,
      simplifyGeometry : BOOLEAN,
      simplificationRatio : SimplificationRatios,
      preserveNormals : BOOLEAN ]

\* mergeVertices keeps a normal attribute when there is one
\* (ThreeJsUtils.jsx 137-142, simplifyMeshworker.js 38, 50-53)
MergedNormals(normals) == IF normals = "absent" THEN "absent" ELSE "merged"

\* geometry.computeVertexNormals() before the analysis: unconditional in
\* ThreeJsUtils.jsx 163, under the test of simplifyMeshworker.js 82
PreparedNormals(p, preserveNormals, normals) ==
    IF p = "inproc" \/ ~preserveNormals \/ normals = "absent"
    THEN "recomputed"
    ELSE normals

InitSimplify ==
    /\ path \in Paths
    /\ config \in Configs
    \* preserveNormals is read by the worker only
    /\ path = "inproc" => config.preserveNormals
    /\ pc = "start"
    /\ originalVertexCount \in VertexCounts
    /\ meshVertexCount = originalVertexCount
    /\ currentBestVertexCount = originalVertexCount
    /\ modified = FALSE
    /\ dedupApplied = FALSE
    /\ meshAnalysis = -1
    /\ currentTargetRatio = -1
    /\ attempts = 0
    /\ simplificationSuccessful = FALSE
    /\ reduceCalls = 0
    /\ mergeCalls = 0
    /\ lastUsedRatio = -1
    /\ lastTargetCount = -1
    /\ allSameCount = TRUE
    /\ allExact = TRUE
    /\ accepted = NoCandidate
    /\ lastReduceThrew = FALSE
    /\ lastOutcome = "none"
    /\ originalGeometry = "asCalled"
    /\ meshGeometry = "asCalled"
    \* the in-process path never reads the normals the mesh came with
    /\ meshNormals \in
           IF path = "inproc" THEN {"asCalled"} ELSE {"asCalled", "absent"}
    /\ reduceInput = "none"
    /\ undisposed = {}
    /\ disposedTwice = FALSE
    /\ lastRecomputed = FALSE
    /\ returned = "none"

Return(value) ==
    /\ pc' = "done"
    /\ returned' = IF value THEN "true" ELSE "false"

\* Variant: the catch lets the exception out of simplifyMesh.
OuterCatchRethrows == "threw"

\* The catch around the simplification stage, ThreeJsUtils.jsx 314-317,
\* simplifyMeshworker.js 238-241: "return false".
OuterCatch == "false"

ReturnFromCatch ==
    /\ pc' = "done"
    /\ returned' = OuterCatch

\* The entry checks: ThreeJsUtils.jsx 121, simplifyMeshworker.js 16-18 (the
\* mesh has a geometry with a position attribute).
Enter ==
    /\ pc = "start"
    \* line 123 / 23: originalGeometry = geometry.clone()
    /\ originalGeometry' = meshGeometry
    /\ IF path = "inproc" /\ ~config.simplifyGeometry
       THEN Return(FALSE)
       ELSE pc' = "dedup" /\ UNCHANGED returned
    /\ UNCHANGED << path, config, originalVertexCount, meshVertexCount,
                    currentBestVertexCount, modified, dedupApplied,
                    meshAnalysis, currentTargetRatio, attempts,
                    simplificationSuccessful, reduceCalls, mergeCalls,
                    lastUsedRatio, lastTargetCount,
                    allSameCount, allExact, accepted, lastReduceThrew,
                    lastOutcome, meshGeometry, meshNormals, reduceInput,
                    undisposed, disposedTwice, lastRecomputed >>

\* Variant: every merge that did not throw is applied.
MergeAppliesAlways(mergedCount, best) == TRUE

\* merged.attributes.position.count <= currentBestVertexCount
MergeApplies(mergedCount, best) == mergedCount <= best

\* Step 1: ThreeJsUtils.jsx 135-153, simplifyMeshworker.js 36-71.
Dedup ==
    /\ pc = "dedup"
    /\ pc' = "prepare"
    /\ IF ~config.removeDuplicates
       THEN UNCHANGED << meshVertexCount, currentBestVertexCount, modified,
                         dedupApplied, mergeCalls, meshGeometry,
                         meshNormals >>
       ELSE \E m \in MergeResults(meshVertexCount) :
              /\ mergeCalls' = mergeCalls + 1
              /\ IF m >= 0 /\ MergeApplies(m, currentBestVertexCount)
                 THEN /\ meshVertexCount' = m
                      /\ currentBestVertexCount' = m
                      /\ modified' = TRUE
                      /\ dedupApplied' = TRUE
                      /\ meshGeometry' = "merged"
                      /\ meshNormals' = MergedNormals(meshNormals)
                 ELSE UNCHANGED << meshVertexCount, currentBestVertexCount,
                                   modified, dedupApplied, meshGeometry,
                                   meshNormals >>
    /\ UNCHANGED << path, config, originalVertexCount, meshAnalysis,
                    currentTargetRatio, attempts, simplificationSuccessful,
                    reduceCalls, lastUsedRatio,
                    lastTargetCount, allSameCount, allExact, accepted,
                    lastReduceThrew, lastOutcome, originalGeometry,
                    reduceInput, undisposed, disposedTwice, lastRecomputed,
                    returned >>

\* ThreeJsUtils.jsx 155-192, simplifyMeshworker.js 74-106: the
\* simplifyGeometry gate, the analysis (which may throw into the catch of
\* line 314 / 238) and the initial target ratio.
Prepare ==
    /\ pc = "prepare"
    /\ IF ~config.simplifyGeometry
       THEN /\ Return(modified)
            /\ UNCHANGED << meshAnalysis, currentTargetRatio, meshNormals >>
       ELSE \E cx \in Complexities \cup {-1} :
              \* line 163 / lines 82-85, before the analysis
              /\ meshNormals' =
                     PreparedNormals(path, config.preserveNormals, meshNormals)
              /\ IF cx = -1
                 THEN /\ ReturnFromCatch
                      /\ UNCHANGED << meshAnalysis, currentTargetRatio >>
                 ELSE /\ meshAnalysis' = cx
                      /\ currentTargetRatio' =
                             targetRatio(path, cx, config.simplificationRatio)
                      /\ pc' = "loop"
                      /\ UNCHANGED returned
    /\ UNCHANGED << path, config, originalVertexCount, meshVertexCount,
                    currentBestVertexCount, modified, dedupApplied, attempts,
                    simplificationSuccessful, reduceCalls, mergeCalls,
                    lastUsedRatio, lastTargetCount,
                    allSameCount, allExact, accepted, lastReduceThrew,
                    lastOutcome, originalGeometry, meshGeometry, reduceInput,
                    undisposed, disposedTwice, lastRecomputed >>

\* One iteration of the while loop: ThreeJsUtils.jsx 194-309,
\* simplifyMeshworker.js 108-232.
Attempt ==
    /\ pc = "loop"
    /\ LoopContinues(path, simplificationSuccessful, attempts)
    /\ attempts' = attempts + 1
    /\ LET target == targetCount(originalVertexCount, currentTargetRatio,
                                 currentBestVertexCount)
       IN  IF target >= currentBestVertexCount
           THEN \* 'Cannot reduce vertex count further': break
                /\ Return(modified)
                /\ lastOutcome' = "break"
                /\ UNCHANGED << meshVertexCount, currentBestVertexCount,
                                modified, currentTargetRatio,
                                simplificationSuccessful, reduceCalls,
                                lastUsedRatio, lastTargetCount,
                                allSameCount, allExact, accepted,
                                lastReduceThrew, meshGeometry, meshNormals,
                                reduceInput,
                                undisposed, disposedTwice, lastRecomputed >>
           ELSE \E r \in ReduceResults(path, target, originalVertexCount),
                   originalFeatures \in OriginalProfiles :
                  \E a \in {simplifyAttempt(path, r, originalFeatures,
                                             originalVertexCount,
                                             currentBestVertexCount,
                                             currentTargetRatio, meshAnalysis,
                                             config.preserveNormals)} :
                  \E d \in {AttemptDisposal(path, r, a.outcome,
                                             config.preserveNormals)} :
                      /\ reduceCalls' = reduceCalls + 1
                      /\ lastReduceThrew' = r.threw
                      /\ lastOutcome' = a.outcome
                      /\ reduceInput' =
                             clonedGeometry(originalGeometry, meshGeometry)
                      /\ undisposed' = undisposed \cup d.undisposed
                      /\ disposedTwice' = (disposedTwice \/ d.twice)
                      /\ lastRecomputed' =
                             RecomputesNormals(path, r, originalVertexCount,
                                               config.preserveNormals)
                      /\ lastUsedRatio' = currentTargetRatio
                      /\ lastTargetCount' = target
                      /\ allSameCount' =
                            (allSameCount /\ ~r.threw
                               /\ r.count = originalVertexCount)
                      /\ allExact' =
                            (allExact /\ ~r.threw /\ r.count = target
                               /\ ~r.comparatorThrows
                               /\ a.outcome \notin {"rejectQuality", "giveUp"})
                      /\ currentTargetRatio' = a.ratio
                      /\ IF a.outcome = "accept"
                         THEN /\ meshVertexCount' = r.count
                              /\ meshGeometry' = "simplified"
                              /\ meshNormals' = "simplified"
                              /\ currentBestVertexCount' = r.count
                              /\ modified' = TRUE
                              /\ simplificationSuccessful' = TRUE
                              /\ accepted' =
                                   [ count |-> r.count, size |-> r.size,
                                     lossRatio |->
                                       checkForLostFeatures(originalFeatures,
                                                            r.features) ]
                         ELSE UNCHANGED << meshVertexCount, meshGeometry,
                                           meshNormals,
                                           currentBestVertexCount, modified,
                                           simplificationSuccessful, accepted >>
                      /\ CASE a.outcome = "error" -> ReturnFromCatch
                           [] a.outcome = "giveUp" -> Return(modified)
                           [] ~LoopContinues(path, simplificationSuccessful',
                                             attempts') ->
                                \* the loop ends: lines 311-318 / 234-243
                                Return(modified')
                           [] OTHER -> UNCHANGED << pc, returned >>
    /\ UNCHANGED << path, config, originalVertexCount, dedupApplied,
                    meshAnalysis, mergeCalls, originalGeometry >>

IdleSimplify ==
    /\ path = "inproc"
    /\ config = [ removeDuplicates |-> FALSE, simplifyGeometry |-> FALSE,
                  simplificationRatio |-> 1, preserveNormals |-> TRUE ]
    /\ pc = "idle"
    /\ originalVertexCount = 0
    /\ meshVertexCount = 0
    /\ currentBestVertexCount = 0
    /\ modified = FALSE
    /\ dedupApplied = FALSE
    /\ meshAnalysis = -1
    /\ currentTargetRatio = -1
    /\ attempts = 0
    /\ simplificationSuccessful = FALSE
    /\ reduceCalls = 0
    /\ mergeCalls = 0
    /\ lastUsedRatio = -1
    /\ lastTargetCount = -1
    /\ allSameCount = TRUE
    /\ allExact = TRUE
    /\ accepted = NoCandidate
    /\ lastReduceThrew = FALSE
    /\ lastOutcome = "none"
    /\ originalGeometry = "asCalled"
    /\ meshGeometry = "asCalled"
    /\ meshNormals = "asCalled"
    /\ reduceInput = "none"
    /\ undisposed = {}
    /\ disposedTwice = FALSE
    /\ lastRecomputed = FALSE
    /\ returned = "none"

(***************************************************************************)
(* analyzeFeatureSizes (ThreeJsUtils.jsx 377-507).  A triangle is          *)
(* described by what lines 445-481 compute from its corners: whether its   *)
(* area is below the small threshold (468), whether it is thin (478), and  *)
(* the key of its centre in the density map (459).  Ratios are exact       *)
(* fractions in lowest terms.                                              *)
(***************************************************************************)
MaxTriangles == 3

SAMPLE_LIMIT == 10000

PosKeys == {"0,0,0", "1,0,0"}

Triangles == [small : BOOLEAN, thin : BOOLEAN, posKey : PosKeys]

Rank(t) ==
    (IF t.small THEN 4 ELSE 0) + (IF t.thin THEN 2 ELSE 0)
        + (IF t.posKey = "0,0,0" THEN 0 ELSE 1)

\* the geometries analysed: every list of at most MaxTriangles triangles,
\* one per arrangement (the face index is drawn uniformly, so the order of
\* the triangles in the buffer does not change what can be returned)
TriangleLists ==
    { l \in UNION { [1..n -> Triangles] : n \in 0..MaxTriangles } :
        \A j \in 1 .. (Len(l) - 1) : Rank(l[j]) <= Rank(l[j + 1]) }

\* line 386
sampleSize(triangleCount) == Min(SAMPLE_LIMIT, triangleCount)

RECURSIVE GCD(_, _)
GCD(a, b) == IF b = 0 THEN a ELSE GCD(b, a % b)

Fraction(num, den) ==
    LET g == GCD(num, den)
    IN  [num |-> num \div g, den |-> den \div g]

\* Math.max(1, n), lines 492-494
AtLeastOne(n) == IF n < 1 THEN 1 ELSE n

\* lines 485-490
highDetailAreas(map) ==
    Cardinality({ k \in DOMAIN map :
                    map[k].count > 2 /\ (map[k].small \/ map[k].thin) })

\* lines 492-495: small/T * 0.6 + thin/T * 0.4 + areas/D * 0.5
geometryComplexity(small, thin, total, map) ==
    LET T == AtLeastOne(total)
        D == AtLeastOne(Cardinality(DOMAIN map))
    IN  Fraction(6 * small * D + 4 * thin * D + 5 * highDetailAreas(map) * T,
                 10 * T * D)

AboveFourTenths(f) == 10 * f.num > 4 * f.den

Unclamped(f) == f

\* Math.min(1, geometryComplexity), line 504
AtMostOne(f) == IF f.num > f.den THEN [num |-> 1, den |-> 1] ELSE f

\* lines 497-506
FeatureProfile(small, thin, total, map) ==
    LET complexity == geometryComplexity(small, thin, total, map)
    IN  [smallFeatureCount |-> small,
         thinFeatureCount |-> thin,
         totalFeatures |-> total,
         smallFeatureRatio |-> Fraction(small, AtLeastOne(total)),
         thinFeatureRatio |-> Fraction(thin, AtLeastOne(total)),
         complexityRatio |->
             Fraction(highDetailAreas(map),
                      AtLeastOne(Cardinality(DOMAIN map))),
         geometryComplexity |-> AtMostOne(complexity),
         isHighDetail |-> AboveFourTenths(complexity)]

EmptyMap == [k \in {} |-> [count |-> 0, small |-> FALSE, thin |-> FALSE]]

\* lines 461-465, 470, 480
Recorded(map, t) ==
    LET old == IF t.posKey \in DOMAIN map
               THEN map[t.posKey]
               ELSE [count |-> 0, small |-> FALSE, thin |-> FALSE]
    IN  [k \in DOMAIN map \cup {t.posKey} |->
            IF k = t.posKey
            THEN [count |-> old.count + 1,
                  small |-> old.small \/ t.small,
                  thin |-> old.thin \/ t.thin]
            ELSE map[k]]

InitAnalyze ==
    /\ anPc = "sample"
    /\ triangles \in TriangleLists
    /\ invocation = 1
    /\ sampleIndex = 0
    /\ analyzedTriangles = {}
    /\ smallFeatureCount = 0
    /\ thinFeatureCount = 0
    /\ totalFeatures = 0
    /\ densityMap = EmptyMap
    /\ profiles = << >>

IdleAnalyze ==
    /\ anPc = "idle"
    /\ triangles = << >>
    /\ invocation = 0
    /\ sampleIndex = 0
    /\ analyzedTriangles = {}
    /\ smallFeatureCount = 0
    /\ thinFeatureCount = 0
    /\ totalFeatures = 0
    /\ densityMap = EmptyMap
    /\ profiles = << >>

\* one iteration of the loop of lines 406-482; faceIndex is what
\* Math.floor(Math.random() * triangleCount) gives (411, 428)
SampleTriangle ==
    /\ anPc = "sample"
    /\ sampleIndex < sampleSize(Len(triangles))
    /\ sampleIndex' = sampleIndex + 1
    /\ \E faceIndex \in 0 .. (Len(triangles) - 1) :
          IF faceIndex \in analyzedTriangles
          THEN UNCHANGED << analyzedTriangles, smallFeatureCount,
                            thinFeatureCount, totalFeatures, densityMap >>
          ELSE LET t == triangles[faceIndex + 1]
               IN  /\ analyzedTriangles' = analyzedTriangles \cup {faceIndex}
                   /\ totalFeatures' = totalFeatures + 1
                   /\ smallFeatureCount' =
                          smallFeatureCount + (IF t.small THEN 1 ELSE 0)
                   /\ thinFeatureCount' =
                          thinFeatureCount + (IF t.thin THEN 1 ELSE 0)
                   /\ densityMap' = Recorded(densityMap, t)
    /\ UNCHANGED << anPc, triangles, invocation, profiles >>

\* lines 484-506, and the start of the next call on the same geometry
ReturnProfile ==
    /\ anPc = "sample"
    /\ sampleIndex >= sampleSize(Len(triangles))
    /\ profiles' = Append(profiles,
                          FeatureProfile(smallFeatureCount, thinFeatureCount,
                                         totalFeatures, densityMap))
    /\ anPc' = IF invocation = 1 THEN "sample" ELSE "done"
    /\ invocation' = IF invocation = 1 THEN 2 ELSE invocation
    /\ sampleIndex' = 0
    /\ analyzedTriangles' = {}
    /\ smallFeatureCount' = 0
    /\ thinFeatureCount' = 0
    /\ totalFeatures' = 0
    /\ densityMap' = EmptyMap
    /\ UNCHANGED triangles

(***************************************************************************)
(* The loop of optimizeModels over the files of a batch (ThreeJsUtils.jsx  *)
(* 528-1194) and what follows it (1196-1208).  Of the body of a file only  *)
(* its end is kept: which record it pushes, or where it throws.            *)
(***************************************************************************)
MaxFiles == 3

\* The statements of the inner try that can throw: the loader (548-555),
\* the meshes (601-945), the extra export (1069-1088),
\* applyMinimalCompression (1138).  All of them come before the push of the
\* branch they are in (1125, 1141).
ThrowSites == {"load", "meshes", "basicExport", "minimalCompression"}

\* The records the inner try can push: lines 1125-1133 and 1141-1149.
BodyRecords == {"candidate", "minimal"}

\* Variant: an exception in the body of a file leaves the loop.
LeavesLoop(site) == "returned"

\* try of line 541, catch of line 1160: every throw site is inside it
InnerCatch(site) == "catch"

\* the for statement of line 528
AfterFile(i, n) == IF i + 1 < n THEN "body" ELSE "publish"

InitBatch ==
    /\ btPc = "body"
    /\ fileCount \in 1..MaxFiles
    /\ batchIndex = 0
    /\ batchResults = << >>
    /\ thrownAt = << >>
    /\ published = "none"

IdleBatch ==
    /\ btPc = "idle"
    /\ fileCount = 0
    /\ batchIndex = 0
    /\ batchResults = << >>
    /\ thrownAt = << >>
    /\ published = "none"

\* lines 529-1159 for file[batchIndex]
FileBody ==
    /\ btPc = "body"
    /\ \/ \E from \in BodyRecords :
            /\ batchResults' =
                   Append(batchResults, [file |-> batchIndex, from |-> from])
            /\ thrownAt' = Append(thrownAt, "none")
            /\ btPc' = AfterFile(batchIndex, fileCount)
            /\ batchIndex' = batchIndex + 1
       \/ \E site \in ThrowSites :
            /\ thrownAt' = Append(thrownAt, site)
            /\ btPc' = InnerCatch(site)
            /\ UNCHANGED << batchResults, batchIndex >>
    /\ UNCHANGED << fileCount, published >>

\* lines 1160-1193: applyMinimalCompression gives the record of 1166, or
\* throws and the catch of 1176 pushes the record of 1177
FileCatch ==
    /\ btPc = "catch"
    /\ \E from \in {"recovery", "lastResort"} :
          batchResults' =
              Append(batchResults, [file |-> batchIndex, from |-> from])
    /\ btPc' = AfterFile(batchIndex, fileCount)
    /\ batchIndex' = batchIndex + 1
    /\ UNCHANGED << fileCount, thrownAt, published >>

\* lines 1196-1208
PublishResults ==
    /\ btPc = "publish"
    /\ published' = batchResults
    /\ btPc' = "returned"
    /\ UNCHANGED << fileCount, batchIndex, batchResults, thrownAt >>

(***************************************************************************)
(* Specifications: one call of simplifyMesh (Spec), one call of            *)
(* restoreMaterialGroups (SpecGroups), one file through optimizeModels     *)
(* (SpecExport), the meshes of a file through the worker channel           *)
(* (SpecWorker), one vertex through toCreasedNormals (SpecCrease), two     *)
(* calls of analyzeFeatureSizes on one geometry (SpecAnalyze), a batch of  *)
(* files through the loop of optimizeModels (SpecBatch).                   *)
(***************************************************************************)
Init == InitSimplify /\ IdleGroups /\ IdleExport /\ IdleWorker /\ IdleCrease
    /\ IdleAnalyze /\ IdleBatch

Next ==
    \/ Enter /\ UNCHANGED << grpVars, expVars, wkVars, crVars, anVars, btVars >>
    \/ Dedup /\ UNCHANGED << grpVars, expVars, wkVars, crVars, anVars, btVars >>
    \/ Prepare /\ UNCHANGED << grpVars, expVars, wkVars, crVars, anVars, btVars >>
    \/ Attempt /\ UNCHANGED << grpVars, expVars, wkVars, crVars, anVars, btVars >>

Spec == Init /\ [][Next]_vars

InitOfGroups ==
    IdleSimplify /\ InitGroups /\ IdleExport /\ IdleWorker /\ IdleCrease
    /\ IdleAnalyze /\ IdleBatch

NextGroups == RestoreGroups /\ UNCHANGED << simpVars, expVars, wkVars, crVars, anVars, btVars >>

SpecGroups == InitOfGroups /\ [][NextGroups]_vars

InitOfExport ==
    IdleSimplify /\ IdleGroups /\ InitExport /\ IdleWorker /\ IdleCrease
    /\ IdleAnalyze /\ IdleBatch

NextExport ==
    \/ LoadFile /\ UNCHANGED << simpVars, grpVars, wkVars, crVars, anVars, btVars >>
    \/ ProcessMeshes /\ UNCHANGED << simpVars, grpVars, wkVars, crVars, anVars, btVars >>
    \/ ExportCandidate /\ UNCHANGED << simpVars, grpVars, wkVars, crVars, anVars, btVars >>
    \/ Conclude /\ UNCHANGED << simpVars, grpVars, wkVars, crVars, anVars, btVars >>
    \/ Recover /\ UNCHANGED << simpVars, grpVars, wkVars, crVars, anVars, btVars >>

SpecExport == InitOfExport /\ [][NextExport]_vars

InitOfWorker ==
    IdleSimplify /\ IdleGroups /\ IdleExport /\ InitWorker /\ IdleCrease
    /\ IdleAnalyze /\ IdleBatch

NextWorker ==
    \/ Submit /\ UNCHANGED << simpVars, grpVars, expVars, crVars, anVars, btVars >>
    \/ WorkerPosts /\ UNCHANGED << simpVars, grpVars, expVars, crVars, anVars, btVars >>
    \/ WorkerErrors /\ UNCHANGED << simpVars, grpVars, expVars, crVars, anVars, btVars >>
    \/ OnMessage /\ UNCHANGED << simpVars, grpVars, expVars, crVars, anVars, btVars >>
    \/ OnError /\ UNCHANGED << simpVars, grpVars, expVars, crVars, anVars, btVars >>
    \/ TimerFires /\ UNCHANGED << simpVars, grpVars, expVars, crVars, anVars, btVars >>
    \/ AfterAwait /\ UNCHANGED << simpVars, grpVars, expVars, crVars, anVars, btVars >>
    \/ Fallback /\ UNCHANGED << simpVars, grpVars, expVars, crVars, anVars, btVars >>
    \/ StaleTimerFires /\ UNCHANGED << simpVars, grpVars, expVars, crVars, anVars, btVars >>
    \/ NextMesh /\ UNCHANGED << simpVars, grpVars, expVars, crVars, anVars, btVars >>

SpecWorker == InitOfWorker /\ [][NextWorker]_vars

InitOfCrease ==
    IdleSimplify /\ IdleGroups /\ IdleExport /\ IdleWorker /\ InitCrease
    /\ IdleAnalyze /\ IdleBatch

NextCrease ==
    \/ ClusterNormal /\ UNCHANGED << simpVars, grpVars, expVars, wkVars, anVars, btVars >>
    \/ AverageDominant /\ UNCHANGED << simpVars, grpVars, expVars, wkVars, anVars, btVars >>

SpecCrease == InitOfCrease /\ [][NextCrease]_vars

InitOfAnalyze ==
    IdleSimplify /\ IdleGroups /\ IdleExport /\ IdleWorker /\ IdleCrease
    /\ InitAnalyze /\ IdleBatch

NextAnalyze ==
    \/ SampleTriangle
         /\ UNCHANGED << simpVars, grpVars, expVars, wkVars, crVars, btVars >>
    \/ ReturnProfile
         /\ UNCHANGED << simpVars, grpVars, expVars, wkVars, crVars, btVars >>

SpecAnalyze == InitOfAnalyze /\ [][NextAnalyze]_vars

InitOfBatch ==
    IdleSimplify /\ IdleGroups /\ IdleExport /\ IdleWorker /\ IdleCrease
    /\ IdleAnalyze /\ InitBatch

OtherThanBatch == << simpVars, grpVars, expVars, wkVars, crVars, anVars >>

NextBatch ==
    \/ FileBody /\ UNCHANGED OtherThanBatch
    \/ FileCatch /\ UNCHANGED OtherThanBatch
    \/ PublishResults /\ UNCHANGED OtherThanBatch

SpecBatch == InitOfBatch /\ [][NextBatch]_vars

(***************************************************************************)
(* Properties of simplifyMesh (checked under Spec).                        *)
(***************************************************************************)

\* C1: on both paths, whenever an attempt is accepted (the mesh geometry is
\* replaced by the candidate), the candidate has strictly fewer vertices than
\* the mesh had when simplifyMesh was called, whatever vertex count
\* modifier.modify returns.
C1_AcceptedBelowOriginal ==
    accepted # NoCandidate =>
        /\ accepted.count < originalVertexCount
        /\ meshVertexCount = accepted.count

\* An accepted candidate one vertex below the original, after a call of
\* modifier.modify that returned at least as many vertices as the original.
C1_Witness ==
    /\ accepted # NoCandidate
    /\ accepted.count = originalVertexCount - 1
    /\ reduceCalls >= 2

\* C2: whatever modifier.modify and the quality checks do, one call of
\* simplifyMesh calls modifier.modify at most 10 times and mergeVertices at
\* most once.
C2_BoundedAttempts == reduceCalls <= 10 /\ mergeCalls <= 1

\* The tenth call of modifier.modify, after a rejected merge.
C2_Witness ==
    reduceCalls = 10 /\ mergeCalls = 1 /\ ~dedupApplied /\ pc = "done"

\* C3: for every accepted candidate, on either path, the bounding-box size
\* ratio new/old deviates from 1 on each axis by at most 0.01 when the
\* analysed mesh is high-detail and by at most 0.02 otherwise.
C3_DistortionBound ==
    accepted # NoCandidate =>
        \A a \in 1..3 :
            ~AxisDeviates(accepted.size[a],
                          IF isHighDetail(meshAnalysis) THEN 10 ELSE 20)

\* C4: for every accepted candidate, on either path, the lossRatio of
\* checkForLostFeatures(original, candidate) is at most 0.12 when the
\* original is high-detail and at most 0.18 otherwise.
C4_FeatureLossBound ==
    accepted # NoCandidate =>
        ~LossExceeds(accepted.lossRatio,
                     IF isHighDetail(meshAnalysis) THEN 12 ELSE 18)

\* C6: within one call, the currentTargetRatio used by attempt k+1 is at
\* least the one used by attempt k, for every simplificationRatio (0.01
\* included) and every sequence of rejections.
C6_TargetRatioNonDecreasing ==
    [][(reduceCalls >= 1 /\ reduceCalls' = reduceCalls + 1)
         => currentTargetRatio >= lastUsedRatio]_vars

C10_Case ==
    /\ pc = "done" /\ path = "inproc" /\ reduceCalls >= 1
    /\ originalVertexCount = 10000 /\ meshAnalysis = 0
    /\ config.simplificationRatio = 50
    /\ ~dedupApplied /\ allExact

\* C10 as stated: in that case simplifyMesh finishes within 3 attempts with
\* a vertex count v, 5000 <= v < 6000.
C10_Within5000And6000 ==
    C10_Case =>
        /\ attempts <= 3
        /\ 5000 <= meshVertexCount /\ meshVertexCount < 6000

\* C10, amended: in that case simplifyMesh accepts the first attempt, whose
\* target is floor(10000 * max(1 - 0.7 * 0.5, 0.6)) = 6500 vertices, and
\* returns true.
C10_FirstAttempt6500 ==
    C10_Case =>
        /\ attempts = 1
        /\ lastTargetCount = 6500
        /\ accepted # NoCandidate
        /\ meshVertexCount = 6500
        /\ returned = "true"

C10_Witness == C10_Case /\ meshVertexCount = 6500 /\ config.removeDuplicates

\* C11: on the same mesh, configuration, analyser profile and results of
\* modifier.modify, the two simplifyMesh functions take the same decisions:
\* the same first target ratio (hence target count), the same attempt bound,
\* and the same accept/reject outcome for every result of modifier.modify.
C11_SameDecisions ==
    pc = "loop" =>
        LET ratio == config.simplificationRatio
            target == targetCount(originalVertexCount, currentTargetRatio,
                                  currentBestVertexCount)
        IN  /\ targetRatio("inproc", meshAnalysis, ratio)
                 = targetRatio("worker", meshAnalysis, ratio)
            /\ MAX_ATTEMPTS("inproc") = MAX_ATTEMPTS("worker")
            /\ \A r \in ReduceResults(path, target, originalVertexCount),
                  originalFeatures \in OriginalProfiles :
                 (inprocAttempt(r, originalFeatures, originalVertexCount,
                                currentBestVertexCount, currentTargetRatio,
                                meshAnalysis).outcome = "accept")
                 <=> (workerAttempt(r, originalFeatures, originalVertexCount,
                                    currentBestVertexCount, currentTargetRatio,
                                    meshAnalysis,
                                    config.preserveNormals).outcome = "accept")

\* C14: for a mesh with a position array simplifyMesh never throws, whatever
\* mergeVertices, modifier.modify, the analyser or the comparator do: it
\* always returns a boolean.
C14_AlwaysReturnsBoolean ==
    /\ returned \in {"none", "true", "false"}
    /\ pc = "done" => returned \in {"true", "false"}

\* ThreeJsUtils.simplifyMesh has returned after modifier.modify threw.
C14_Witness ==
    /\ pc = "done" /\ path = "inproc" /\ lastReduceThrew
    /\ mergeCalls = 1 /\ returned = "false"

\* C15: on every exit path the returned flag is true whenever the geometry
\* was replaced by the merge result or by an accepted candidate.
C15_ReturnedReflectsMutation ==
    (pc = "done" /\ (dedupApplied \/ accepted # NoCandidate))
        => returned = "true"

\* C16: with removeDuplicates true and simplifyGeometry false, simplifyMesh
\* runs the merge, and returns true exactly when the merge was applied.
C16_DedupIndependent ==
    (pc = "done" /\ config.removeDuplicates /\ ~config.simplifyGeometry) =>
        /\ mergeCalls = 1
        /\ returned = (IF dedupApplied THEN "true" ELSE "false")

\* C17: when modifier.modify throws during an attempt, the attempt counts as
\* a rejection and the loop goes on while attempts remain; the result of the
\* duplicate removal is still reported.
C17_ThrownAttemptContinues ==
    lastReduceThrew =>
        /\ attempts < MAX_ATTEMPTS(path) => pc = "loop"
        /\ pc = "done" => returned = (IF dedupApplied THEN "true" ELSE "false")

\* C23: every geometry an attempt creates (the clone of the original and the
\* result of modify) is disposed exactly once on every path that does not
\* install it, so when simplifyMesh has returned none of them is left
\* undisposed and none was disposed twice.
C23_AttemptGeometriesDisposedOnce ==
    pc = "done" => undisposed = {} /\ ~disposedTwice

\* C26: after a rejection for distortion or feature loss the target ratio is
\* raised by 0.05 (capped at 0.98); the call stops there if the ratio used by
\* the rejected attempt already exceeded 0.9, and otherwise makes another
\* attempt while attempts remain.
C26_QualityRejectionRetries ==
    lastOutcome \in {"rejectQuality", "giveUp"} =>
        /\ currentTargetRatio = Min(lastUsedRatio + 500, 9800)
        /\ lastUsedRatio > 9000 => pc = "done"
        /\ (lastUsedRatio <= 9000 /\ attempts < MAX_ATTEMPTS(path)) =>
               pc = "loop"

\* C27: on either path the first target ratio is
\* max(1 - k * simplificationRatio, 0.6), with k = 0.15 for complexity above
\* 0.7, 0.3 above 0.4 and 0.7 otherwise, so the first attempt never plans to
\* keep fewer than 60% of the vertices.
C27_FirstTargetRatio ==
    (pc = "loop" /\ attempts = 0) =>
        LET k == IF meshAnalysis > 700 THEN 15
                 ELSE IF meshAnalysis > 400 THEN 30 ELSE 70
        IN  /\ currentTargetRatio =
                  Max(Scale - k * config.simplificationRatio, 6000)
            /\ currentTargetRatio >= 6000

\* C28: every call of modify receives a clone whose content is that of the
\* geometry the mesh had when simplifyMesh was called; the saved original is
\* not changed by the deduplication, by an earlier attempt or by the
\* recomputation of normals.
C28_ReduceGetsOriginalContent ==
    /\ originalGeometry = "asCalled"
    /\ reduceCalls >= 1 => reduceInput = "asCalled"

\* A second call of modify after the deduplication replaced the mesh
\* geometry.
C28_Witness ==
    /\ reduceCalls >= 2
    /\ dedupApplied
    /\ meshGeometry = "merged"
    /\ reduceInput = "asCalled"

\* C31: in the worker, when the normals of a candidate have to be recomputed
\* (preserveNormals is false or the candidate has no normals), the candidate
\* goes on to the distortion and feature-loss checks and is accepted,
\* rejected for quality or rejected as not better; the recomputation never
\* makes the attempt fail.
C31_RecomputationNeverFails ==
    (path = "worker" /\ lastRecomputed) =>
        lastOutcome \in {"accept", "rejectQuality", "rejectNotBetter"}

\* C37: when simplifyMesh returns false, in-process or in the worker whose
\* reply optimizeModels applies, the position, normal, UV, index and group
\* data of the mesh are what they were before the call; existing normals
\* are not overwritten when neither duplicate removal nor a reduction was
\* applied.
C37_FalseLeavesMeshUntouched ==
    returned = "false" =>
        /\ meshGeometry = "asCalled"
        /\ meshNormals \in {"asCalled", "absent"}

\* C38: in every attempt the target count handed to modifier.modify is
\* strictly below currentBestVertexCount, so the 'cannot reduce further'
\* break is never taken: the loop ends only with an accepted candidate, at
\* the attempt bound, with the give-up after a rejection above 0.9, or with
\* an exception.
C38_TargetBelowBest ==
    [][ (pc = "loop" /\ attempts' = attempts + 1) =>
          /\ lastOutcome' # "break"
          /\ reduceCalls' = reduceCalls + 1
          /\ lastTargetCount' < currentBestVertexCount
          /\ pc' = "done" =>
                \/ simplificationSuccessful'
                \/ attempts' >= MAX_ATTEMPTS(path)
                \/ lastOutcome' \in {"giveUp", "error"} ]_vars

\* after duplicate removal lowered the best count, an attempt was made with
\* the target capped at one below it, and rejected
C38_Witness ==
    /\ dedupApplied
    /\ reduceCalls > 0
    /\ lastTargetCount = currentBestVertexCount - 1
    /\ lastTargetCount < (originalVertexCount * lastUsedRatio) \div Scale
    /\ lastOutcome = "rejectNotBetter"

\* C39: whatever the steps of a simplifyMesh call (duplicate removal
\* applied or skipped, rejected attempts, an accepted attempt), the vertex
\* count of the mesh is at most its count before the call, and
\* currentBestVertexCount never increases.
C39_CountNeverGrows ==
    /\ [](meshVertexCount <= originalVertexCount)
    /\ [][currentBestVertexCount' <= currentBestVertexCount]_vars

\* duplicate removal was applied, attempts were rejected, one was accepted
C39_Witness ==
    /\ dedupApplied
    /\ reduceCalls >= 2
    /\ lastOutcome = "accept"
    /\ meshVertexCount < originalVertexCount
    /\ returned = "true"

(***************************************************************************)
(* Properties of toCreasedNormals (checked under SpecCrease).              *)
(***************************************************************************)

\* A vertex shared by exactly two faces whose normals are perpendicular (a
\* dihedral angle of 90 degrees), once its normal has been computed.
C25_Case ==
    /\ crPc = "done"
    /\ Len(vertexFaceNormals) = 2
    /\ Dot(vertexFaceNormals[1], vertexFaceNormals[2]) = 0

\* C25: at such a vertex, a crease angle of 2.5 degrees puts the two face
\* normals in separate clusters and the vertex normal is one of the face
\* normals, not their average; a crease angle of 95 degrees puts them in one
\* cluster and the vertex normal is their normalised sum.
C25_CreaseSeparatesRightAngle ==
    C25_Case =>
        LET n1 == vertexFaceNormals[1]
            n2 == vertexFaceNormals[2]
            average == [a \in 1..3 |-> 707 * (n1[a] + n2[a])]
        IN  /\ creaseAngle = 25 =>
                 /\ Len(normalGroups) = 2
                 /\ vertexNormal = [a \in 1..3 |-> 1000 * n1[a]]
                 /\ vertexNormal # average
            /\ creaseAngle = 950 =>
                 /\ Len(normalGroups) = 1
                 /\ vertexNormal = average

C25_Witness ==
    /\ C25_Case
    /\ creaseAngle = 950
    /\ Len(normalGroups) = 1
    /\ vertexNormal = <<707, 707, 0>>

(***************************************************************************)
(* Properties of restoreMaterialGroups (checked under SpecGroups).         *)
(***************************************************************************)

\* C5: after restoreMaterialGroups, for any original groups and any new
\* index count, the group counts sum to at most newIndexCount and every
\* group's range [start, start + count) lies inside [0, newIndexCount).
C5_GroupsInsideIndexRange ==
    grpPc = "done" =>
        /\ SumCounts(groups) # NaN
        /\ SumCounts(groups) <= indexCount
        /\ \A i \in 1..Len(groups) :
             /\ groups[i].start # NaN /\ groups[i].count # NaN
             /\ 0 <= groups[i].start
             /\ groups[i].start + groups[i].count <= indexCount

\* C29: after restoreMaterialGroups the groups are contiguous and do not
\* overlap (the first starts at 0, each other one where the previous one
\* ends), every count is non-negative, no group starts beyond newIndexCount,
\* and when the original counts sum to more than newIndexCount the total of
\* the counts is newIndexCount.
C29_GroupsRepacked ==
    grpPc = "done" =>
        /\ \A i \in 1..Len(groups) :
             /\ groups[i].start # NaN /\ groups[i].count # NaN
             /\ groups[i].count >= 0
             /\ groups[i].start <= indexCount
             /\ groups[i].start =
                  (IF i = 1 THEN 0
                   ELSE groups[i - 1].start + groups[i - 1].count)
        /\ SumCounts(materialInfo) > indexCount =>
               SumCounts(groups) = indexCount

\* The index count of the geometry the groups were captured from: the groups
\* of a loaded geometry cover its index range.
C30_OldIndexCount == SumCounts(materialInfo)

\* C30: each group's count is floor(originalCount * newIndexCount /
\* oldIndexCount), oldIndexCount being the index count of the geometry the
\* groups were captured from: halving the index count halves every count.
C30_CountsScaled ==
    (grpPc = "done" /\ C30_OldIndexCount > 0) =>
        \A i \in 1..Len(groups) :
            groups[i].count =
                (materialInfo[i].count * indexCount) \div C30_OldIndexCount

(***************************************************************************)
(* Properties of optimizeModels (checked under SpecExport).                *)
(***************************************************************************)

\* C7: every result record has optimizedSize <= originalSize * 0.98, on
\* every path: a chosen export candidate, applyMinimalCompression when
\* nothing was optimized, and the recovery after an exception.
C7_ReportedSizeFloor ==
    \A i \in 1..Len(results) :
        results[i].optimizedSize100 <= results[i].originalSize * 98

\* C9: when useDraco is set and every Draco serialization throws, the search
\* still serializes 'Binary encoding without Draco', and the file gets a
\* result record with bytes.
C9_DracoFailureFallsThrough ==
    ( /\ useDraco /\ ~dracoApplied /\ Len(serialized) >= 1
      /\ expPc \in {"conclude", "recover", "done"} ) =>
        /\ \E i \in 1..Len(serialized) :
               serialized[i] = "Binary encoding without Draco"
        /\ expPc = "done" =>
               Len(results) = 1 /\ results[1].blobSize >= 0

\* Both Draco profiles threw and the plain profile gave the record.
C9_Witness ==
    /\ expPc = "done" /\ useDraco /\ ~dracoApplied
    /\ Len(serialized) >= 3
    /\ Len(results) = 1 /\ results[1].from = "candidate"
    /\ bestResult = "Binary encoding without Draco"

\* C18: the search serializes the profiles in the fixed order Draco,
\* compatible Draco (both only with useDraco), plain binary, forced embed
\* (only with a texture estimate above 1 MB); once a candidate is below
\* 0.7 * originalSize no later profile is serialized; plain binary is
\* serialized in every search in which no earlier candidate was below it.
C18_OrderAndEarlyStop ==
    LET expected ==
            (IF useDraco
             THEN << "Draco compression", "Compatible Draco compression" >>
             ELSE << >>)
            \o << "Binary encoding without Draco" >>
            \o (IF file.textureMB > 1
                THEN << "With aggressive texture compression" >> ELSE << >>)
        Below(i) == sizes[i] >= 0 /\ sizes[i] * 10 < file.size * 7
    IN  /\ Len(serialized) <= Len(expected)
        /\ Len(sizes) = Len(serialized)
        /\ \A i \in 1..Len(serialized) : serialized[i] = expected[i]
        /\ \A i \in 1..Len(sizes) : Below(i) => i = Len(serialized)
        /\ ( /\ expPc \in {"conclude", "recover", "done"}
             /\ exportConfigurations # << >>
             /\ \A i \in 1..Len(sizes) :
                    HasDracoOptions(serialized[i]) => ~Below(i) )
           => \E i \in 1..Len(serialized) :
                  serialized[i] = "Binary encoding without Draco"

\* The second Draco profile came out below 0.7 * originalSize and ended a
\* search that had four profiles.
C18_Witness ==
    /\ expPc = "done" /\ useDraco /\ file.textureMB > 1
    /\ Len(sizes) = 2 /\ sizes[1] >= 0
    /\ sizes[2] >= 0 /\ sizes[2] * 10 < file.size * 7

\* C19: when the candidate loop ends, bestSize is the least size over the
\* candidates serialized without error, bestResult is the earliest candidate
\* of that size, and a candidate whose serialization threw is never kept.
C19_BestIsEarliestMinimum ==
    expPc = "conclude" =>
        LET ok == { i \in 1..Len(sizes) : sizes[i] >= 0 }
        IN  IF ok = {}
            THEN bestResult = "null" /\ bestSize = Infinity
            ELSE \E i \in ok :
                   /\ bestSize = sizes[i]
                   /\ bestResult = serialized[i]
                   /\ \A j \in ok : sizes[j] >= sizes[i]
                   /\ \A j \in ok : sizes[j] = sizes[i] => j >= i

\* The first profile threw and the next two came out with the same size.
C19_Witness ==
    /\ expPc = "conclude" /\ Len(sizes) >= 3
    /\ sizes[1] = -1 /\ sizes[2] >= 0 /\ sizes[3] = sizes[2]
    /\ bestResult = serialized[2]

\* C36: the change log holds 'Applied Draco compression' only if the
\* candidate returned for the file was serialized with a Draco profile;
\* when a Draco profile serializes but the plain-binary candidate is
\* smaller and is the one returned, no Draco entry is logged and the
\* reported size is not forced down by the Draco clamp.
C36_DracoLoggedOnlyWhenReturned ==
    (expPc = "done" /\ results[1].from = "candidate") =>
        /\ << "Compression", "Applied Draco compression" >> \in allAffectedNodes
               => HasDracoOptions(bestResult)
        /\ (dracoApplied /\ ~HasDracoOptions(bestResult)) =>
               results[1].optimizedSize100 =
                   Min(results[1].blobSize * 100, file.size * 98)

\* C40: when the record of the file comes from a chosen export candidate
\* and the Draco clamp does not apply, the reported optimizedSize equals
\* the byte length of the returned optimizedBlob; in particular it is not
\* smaller than the bytes returned.
C40_ReportedSizeIsBlobSize ==
    (/\ expPc = "done"
     /\ results[1].from = "candidate"
     /\ ~(useDraco /\ dracoApplied /\ bestSize * 10 > file.size * 9)) =>
        results[1].optimizedSize100 = results[1].blobSize * 100

\* C20: whenever useDraco is set and the best candidate is larger than
\* 0.9 * originalSize, the reported optimizedSize is originalSize * 0.95 for
\* a small model and originalSize * 0.85 otherwise, also when the Draco
\* profiles failed to serialize.
C20_DracoClampAlways ==
    ( /\ expPc = "done" /\ Len(results) = 1 /\ useDraco
      /\ bestResult # "null" /\ bestSize * 10 > file.size * 9 ) =>
        results[1].optimizedSize100
            = file.size * (IF isModelSmall(file) THEN 95 ELSE 85)

\* C21: the Draco clamp only lowers the reported size: the optimizedSize
\* reported for a chosen candidate is at most the measured byte size of that
\* candidate, for every candidate size and both model-size classes.
C21_ClampOnlyLowers ==
    \A i \in 1..Len(results) :
        results[i].from = "candidate" =>
            results[i].optimizedSize100 <= results[i].blobSize * 100

\* C22: when processing a file failed and applyMinimalCompression fails as
\* well, the bytes of the result are the file truncated by 2%: their length
\* equals the reported optimizedSize.
C22_LastResortBytesMatchReport ==
    \A i \in 1..Len(results) :
        results[i].from = "lastResort" =>
            results[i].blobSize * 100 = results[i].optimizedSize100

(***************************************************************************)
(* Properties of the worker channel (checked under SpecWorker).            *)
(***************************************************************************)

\* C12: whenever a worker task ends without a successful reply (the timer
\* fires first, the worker replies with an error, its onerror fires, or
\* postMessage throws), the worker is terminated, obj.geometry is what it was
\* before the task, modified is false, and no message delivered afterwards
\* changes the mesh.
C12_FailedTaskLeavesMesh ==
    channelFailure \in {"timeout", "errorReply", "onerror", "post"} =>
        /\ workerState = "terminated"
        /\ objGeometry.from = "original"
        /\ promise = "false"
        /\ ~simplificationApplied

\* The timer fired while a reply of the worker was queued.
C12_Witness ==
    /\ channelFailure = "timeout" /\ workerReplied
    /\ wkPc = "done" /\ timeoutId = "fired"

\* C24: at most one simplification worker is alive at any time: the worker
\* of a mesh is terminated on every path that resolves its promise before
\* the worker of the next mesh is created, and the promise of a mesh
\* resolves exactly once.
C24_OneWorkerAlive ==
    /\ leftAlive + (IF Alive(workerState) THEN 1 ELSE 0) <= 1
    /\ promise \in {"true", "false"} => workerState = "terminated"
    /\ (wkPc = "done" /\ promise # "none") => promise \in {"true", "false"}

\* C35: optimizeModels reads the configuration object of the caller and
\* never writes it: each of its fields, preserveNormals being absent
\* included, keeps the value it had when optimizeModels was called.
C35_ConfigurationReadOnly == wkConfig = suppliedConfig

\* C39, on the channel of optimizeModels: neither a worker reply applied to
\* the mesh nor the direct fallback pass raises its vertex count.
C39_ChannelNeverGrows ==
    [][meshIndex' = meshIndex => objGeometry'.count <= objGeometry.count]_vars

\* C13: whenever the worker channel fails for a mesh (the Worker cannot be
\* constructed, postMessage throws, onerror fires, the worker replies with an
\* error, or the timeout expires), optimizeModels runs the direct fallback
\* pass on that mesh.
C13_FallbackOnChannelFailure ==
    (wkPc = "done" /\ channelFailure # "none") => fallbackRan


(***************************************************************************)
(* Properties of analyzeFeatureSizes (checked under SpecAnalyze).          *)
(***************************************************************************)

\* C32: for every mesh, the empty one included, and every sample drawn,
\* the profile analyzeFeatureSizes returns has geometryComplexity between 0
\* and 1, isHighDetail true exactly when that returned geometryComplexity
\* is above 0.4, smallFeatureCount and thinFeatureCount each at most
\* totalFeatures, totalFeatures at most min(10000, triangle count); and no
\* triangle index is counted twice.
C32_ProfileInRange ==
    /\ totalFeatures = Cardinality(analyzedTriangles)
    /\ \A k \in 1..Len(profiles) :
          LET p == profiles[k]
          IN  /\ p.geometryComplexity.num >= 0
              /\ p.geometryComplexity.num <= p.geometryComplexity.den
              /\ p.isHighDetail = AboveFourTenths(p.geometryComplexity)
              /\ p.smallFeatureCount <= p.totalFeatures
              /\ p.thinFeatureCount <= p.totalFeatures
              /\ p.totalFeatures <= Min(10000, Len(triangles))

\* the weighted sum exceeds 1 and is returned as 1; a triangle was drawn twice
C32_Witness ==
    /\ Len(profiles) >= 1
    /\ profiles[1].geometryComplexity = [num |-> 1, den |-> 1]
    /\ profiles[1].isHighDetail
    /\ profiles[1].totalFeatures >= 3
    /\ invocation = 2
    /\ sampleIndex > totalFeatures

\* C33: two calls of analyzeFeatureSizes on the same mesh return the same
\* Feature Profile.
C33_SameProfileEachRun ==
    Len(profiles) = 2 => profiles[1] = profiles[2]

(***************************************************************************)
(* Properties of the batch loop (checked under SpecBatch).                 *)
(***************************************************************************)

\* C34: a file that fails to load, or whose processing throws, does not
\* stop the batch: when optimizeModels has finished, the result list holds
\* exactly one record per input file, in input order, the files after a
\* failed one included.
C34_OneRecordPerFile ==
    btPc = "returned" =>
        /\ Len(batchResults) = fileCount
        /\ \A k \in 1..fileCount : batchResults[k].file = k - 1
        /\ published = batchResults

\* the first file failed to load and a later file was processed normally
C34_Witness ==
    /\ btPc = "returned"
    /\ fileCount >= 2
    /\ thrownAt[1] = "load"
    /\ batchResults[2].from = "candidate"

=============================================================================
